---- MODULE Spec2Model ----
(***************************************************************************)
(* Verification model of the AI-response reconciliation core of            *)
(* AI-Waheeb-Pro:                                                          *)
(*   - the Response Recoverer  (JSONAIWorker._parse_ai_response and its    *)
(*     regex repair passes, core/json_ai_processor.py);                    *)
(*   - the Async Request Coordinator (JSONAIProcessor / JSONAIWorker);     *)
(*   - the File Reconciliation Engine (UnifiedFileManager) together with   *)
(*     the main-window slots that are connected to it;                     *)
(*   - the create_file pipeline of the Action Dispatcher                   *)
(*     (_handle_ai_response, then EnhancedMainWindow.on_ai_response).      *)
(*                                                                         *)
(* Texts are finite sequences of one-character strings.  Every regular     *)
(* expression of the source is written out as a scan over such a sequence. *)
(***************************************************************************)
EXTENDS Integers, Sequences, FiniteSets, TLC

VARIABLES
    \* ---- Response Recoverer (one reply being recovered) ----
    response_text,      \* the raw reply handed to _parse_ai_response
    origin,             \* how the reply was produced (ghost; never read by the code)
    recover_pc,         \* "received" | "parsed"
    parsed_response,    \* the dict returned by _parse_ai_response
    \* ---- Async Request Coordinator (JSONAIProcessor and its workers) ----
    is_connected,       \* JSONAIProcessor.is_connected
    current_worker,     \* JSONAIProcessor.current_worker: a worker id, 0 for None
    requests,           \* number of JSONAIWorker objects created so far
    worker_pc,          \* per worker: position of its thread in JSONAIWorker.run
    is_cancelled,       \* per worker: JSONAIWorker.is_cancelled
    event_queue,        \* queued signals waiting for the main thread, in order
    main_pc,            \* what the main thread is blocked in, "idle" when in the event loop
    notifications,      \* per request: what the processor has emitted for it (ghost)
    handled_at,         \* per request: `requests` when its result was handled (ghost)
    rejected,           \* inputs refused with error_occurred: not connected (ghost)
    submitted_path,     \* per request: current_file_path when it was submitted (ghost)
    call_raised,        \* per request: chat.send_message raised (ghost)
    joined,             \* per request: a cancel-and-wait on its worker has returned (ghost)
    dispatched,         \* per request: the file its response updated in place (ghost)
    \* ---- File Reconciliation Engine (UnifiedFileManager) and the editor tabs ----
    disk,               \* the files on disk: path -> text
    open_files,         \* UnifiedFileManager.open_files: path -> entry
    open_tabs,          \* EnhancedMainWindow.open_tabs and their editors: path -> editor text
    current_file,       \* EnhancedMainWindow.current_file, NoPath for None
    current_tab,        \* the editor tab the tab widget shows, NoPath when it shows none
    welcome_tab,        \* the tab widget still holds the welcome tab
    current_file_path,  \* JSONAIProcessor.current_file_path, NoPath for "" and None
    removal_log,        \* the latest removal or replacement of an open_files entry (ghost)
    ignore_watcher_events,  \* UnifiedFileManager._ignore_watcher_events
    reset_timers,       \* pending QTimer.singleShot(500, _reset_ignore_watcher_flag):
                        \* milliseconds left until each expires, oldest first
    watch_queue,        \* change notifications of the watcher thread not yet handled
    mutating_calls,     \* number of mutating engine calls made (ghost)
    external_writes,    \* number of writes by other programs (ghost)
    last_call_age,      \* milliseconds since the latest mutating engine call returned,
                        \* -1 for never, not counted beyond the window (ghost)
    last_delivery,      \* what happened to the latest watcher notification (ghost)
    history,            \* FileHistoryManager.history: the FileOperation records
    current_index,      \* FileHistoryManager.current_index, -1 .. len(history) - 1
    last_return,        \* what the latest call of the engine's interface returned (ghost)
    \* ---- Action Dispatcher: the create_file pipeline ----
    working_dir,        \* the directory relative paths are resolved in (os.getcwd())
    current_folder,     \* UnifiedFileManager.current_folder, "" for None
    create_log,         \* what the latest create_file pipeline did (ghost)
    inplace_log,        \* what the latest in-place response pipeline did (ghost)
    \* ---- FileWatcherThread and the directory tree it polls ----
    watch_tree,         \* the watched tree: path -> what os.stat reports for it
    file_states,        \* FileWatcherThread.file_states: path -> stored state
    watcher_pc,         \* "constructed" | "watching": scan_initial_state has run
    poll_events,        \* per path: the signals the latest check_changes emitted (ghost)
    changed_since       \* the paths changed since the latest scan or poll (ghost)

recovererVars == <<response_text, origin, recover_pc, parsed_response>>
coordinatorVars == <<is_connected, current_worker, requests, worker_pc, is_cancelled,
                     event_queue, main_pc, notifications, handled_at, rejected,
                     submitted_path, call_raised, joined, dispatched>>

engineVars == <<disk, open_files, open_tabs, current_file, current_tab, welcome_tab,
                current_file_path, removal_log, ignore_watcher_events,
                reset_timers, watch_queue, mutating_calls, external_writes,
                last_call_age, last_delivery, history, current_index, last_return>>

dispatchVars == <<working_dir, current_folder, create_log, inplace_log>>

watcherVars == <<watch_tree, file_states, watcher_pc, poll_events, changed_since>>

vars == <<recovererVars, coordinatorVars, engineVars, dispatchVars, watcherVars>>

\* bounds of the model
MaxRequests == 3
MaxRejected == 1
Workers == 1..MaxRequests

NoPath == [dir |-> "", name |-> <<>>]
NoCreate == [ran |-> FALSE, before |-> <<>>, asked |-> <<>>, file_name |-> NoPath,
             target_directory |-> "", answer |-> "none", writes |-> <<>>,
             written |-> NoPath]
NoRemoval == [path |-> NoPath, by |-> "none", was_modified |-> FALSE, resolved |-> "none"]
NoInPlace == [ran |-> FALSE, action |-> "", bound |-> NoPath, content |-> <<>>,
              answer |-> "", error |-> FALSE, calls |-> <<>>, file_text |-> <<>>,
              written |-> <<>>]
NoOperation == [operation_type |-> "None"]
\* FileHistoryManager.max_history, scaled down so that the list gets full
max_history == 2
NoReturn == [call |-> "none", value |-> "None"]
NoDispatch == [path |-> NoPath, after_join |-> FALSE]
NoDelivery == [delivered |-> FALSE, in_window |-> FALSE, after_window |-> FALSE,
               reported |-> FALSE]

(***************************************************************************)
(* Characters                                                              *)
(***************************************************************************)
DQ == "\""
BS == "\\"
NL == "\n"
SP == " "

\* \w of Python's re (ASCII part)
WordChars ==
    {"a","b","c","d","e","f","g","h","i","j","k","l","m","n","o","p","q","r","s",
     "t","u","v","w","x","y","z","_","0","1","2","3","4","5","6","7","8","9"}

\* \s of Python's re (the characters a TLA+ string can hold)
SpaceChars == {SP, NL, "\t", "\r", "\f"}

\* WHITESPACE of json.decoder: [ \t\n\r]*
JsonSpace == {SP, NL, "\t", "\r"}

HexChars == {"a","b","c","d","e","f","0","1","2","3","4","5","6","7","8","9"}

\* the concatenation of Piece(lo), ..., Piece(hi)
RECURSIVE FlatMap(_, _, _)
FlatMap(Piece(_), lo, hi) ==
    IF lo > hi THEN <<>>
    ELSE IF lo = hi THEN Piece(lo)
    ELSE LET mid == (lo + hi) \div 2
         IN  FlatMap(Piece, lo, mid) \o FlatMap(Piece, mid + 1, hi)

\* the first index >= p of s holding a character of set cs, Len(s)+1 when none
IndexOfAny(s, cs, p) ==
    IF \E i \in p..Len(s) : s[i] \in cs
    THEN CHOOSE i \in p..Len(s) : s[i] \in cs /\ \A j \in p..(i - 1) : s[j] \notin cs
    ELSE Len(s) + 1

\* the first index >= p of s whose character is NOT in cs, Len(s)+1 when none
SkipWhile(s, cs, p) ==
    IF \E i \in p..Len(s) : s[i] \notin cs
    THEN CHOOSE i \in p..Len(s) : s[i] \notin cs /\ \A j \in p..(i - 1) : s[j] \in cs
    ELSE Len(s) + 1

\* the last index < p of s whose character is NOT in cs, 0 when none
SkipBackWhile(s, cs, p) ==
    p - (CHOOSE d \in 1..p :
            /\ (p - d = 0 \/ s[p - d] \notin cs)
            /\ \A j \in (p - d + 1)..(p - 1) : s[j] \in cs)

\* the last index of s holding character c, 0 when none
LastIndexOf(s, c) ==
    IF \E i \in 1..Len(s) : s[i] = c
    THEN CHOOSE i \in 1..Len(s) : s[i] = c /\ \A j \in (i + 1)..Len(s) : s[j] # c
    ELSE 0

StartsWithAt(s, p, marker) ==
    /\ p + Len(marker) - 1 <= Len(s)
    /\ \A i \in 1..Len(marker) : s[p + i - 1] = marker[i]

(***************************************************************************)
(* re.search(r'\{.*\}', text, re.DOTALL): first "{" to last "}"            *)
(***************************************************************************)
SearchJsonBlock(text) ==
    LET i == IndexOfAny(text, {"{"}, 1)
        j == LastIndexOf(text, "}")
    IN  IF i <= Len(text) /\ j > i
        THEN [found |-> TRUE, block |-> SubSeq(text, i, j)]
        ELSE [found |-> FALSE, block |-> <<>>]

(***************************************************************************)
(* _clean_json_string, pass 2:                                             *)
(*   re.sub(r'(?<![:"\w])//.*', '', s)   and   re.sub(r'(?<![:"\w])#.*',..)*)
(* The marker starts a comment unless the character before it is a colon,  *)
(* a quote or a word character; "." does not match a newline, so the       *)
(* comment ends before the next newline.                                   *)
(***************************************************************************)
CommentGuardChars == {":", DQ} \cup WordChars

CommentStartsAt(s, marker, m) ==
    /\ StartsWithAt(s, m, marker)
    /\ (m = 1 \/ s[m - 1] \notin CommentGuardChars)

StripComments(s, marker) ==
    LET starts == {m \in 1..Len(s) : CommentStartsAt(s, marker, m)}
        InComment(p) ==
            /\ s[p] # NL
            /\ \E m \in starts : m <= p /\ \A j \in m..p : s[j] # NL
        Piece(p) == IF InComment(p) THEN <<>> ELSE <<s[p]>>
    IN  FlatMap(Piece, 1, Len(s))

RemoveSlashComments(s) == StripComments(s, <<"/", "/">>)
RemoveHashComments(s) == StripComments(s, <<"#">>)

(***************************************************************************)
(* pass 3: re.sub(r'(?<!\\)\n', '\\n', s).  The replacement is a template: *)
(* re expands the two characters backslash,n of the template to a newline, *)
(* so every unescaped newline is replaced by a newline.                    *)
(***************************************************************************)
NewlineTemplateExpansion == <<NL>>

EscapeNewlines(s) ==
    LET Piece(p) == IF s[p] = NL /\ (p = 1 \/ s[p - 1] # BS)
                    THEN NewlineTemplateExpansion
                    ELSE <<s[p]>>
    IN  FlatMap(Piece, 1, Len(s))

(***************************************************************************)
(* pass 4: re.sub(r'("\s*?\n?\s*?")\s*(")', r'\1,\2', s)                   *)
(* quote, white space, quote, white space, quote: a comma is put before    *)
(* the third quote and the white space in front of it is dropped.  The     *)
(* matches do not overlap: in a run of quotes separated by white space     *)
(* only, the 3rd, 6th, ... quote is the third quote of a match.            *)
(***************************************************************************)
RECURSIVE QuoteRunPosition(_, _)
QuoteRunPosition(s, p) ==
    LET q == SkipBackWhile(s, SpaceChars, p)
    IN  IF q > 0 /\ s[q] = DQ THEN QuoteRunPosition(s, q) + 1 ELSE 1

ThirdQuoteOfMatch(s, p) ==
    p <= Len(s) /\ s[p] = DQ /\ QuoteRunPosition(s, p) % 3 = 0

InsertMissingCommas(s) ==
    LET Piece(p) ==
            IF ThirdQuoteOfMatch(s, p) THEN <<",", DQ>>
            ELSE IF s[p] \in SpaceChars /\ ThirdQuoteOfMatch(s, SkipWhile(s, SpaceChars, p))
                 THEN <<>>
                 ELSE <<s[p]>>
    IN  FlatMap(Piece, 1, Len(s))

(***************************************************************************)
(* pass 5: re.sub(r',(\s*[}\]])', r'\1', s)                                *)
(***************************************************************************)
RemoveTrailingCommas(s) ==
    LET Closes(p) == LET r == SkipWhile(s, SpaceChars, p + 1)
                     IN  r <= Len(s) /\ s[r] \in {"}", "]"}
        Piece(p) == IF s[p] = "," /\ Closes(p) THEN <<>> ELSE <<s[p]>>
    IN  FlatMap(Piece, 1, Len(s))

(***************************************************************************)
(* pass 6: os.linesep.join([l for l in s.splitlines() if l.strip()])       *)
(* (the texts of the model hold no line boundary other than the newline)   *)
(***************************************************************************)
LineSep == <<NL>>

SplitLines(s) ==
    LET breaks == SelectSeq([i \in 1..Len(s) |-> i], LAMBDA i : s[i] = NL)
        n == Len(breaks)
        From(k) == IF k = 1 THEN 1 ELSE breaks[k - 1] + 1
        To(k) == IF k > n THEN Len(s) ELSE breaks[k] - 1
        all == [k \in 1..(n + 1) |-> SubSeq(s, From(k), To(k))]
    IN  \* a text that ends with a line break has no empty last line
        IF From(n + 1) > Len(s) THEN SubSeq(all, 1, n) ELSE all

IsBlankLine(l) == \A i \in 1..Len(l) : l[i] \in SpaceChars

JoinLines(lines) ==
    LET Piece(k) == IF k = 1 THEN lines[k] ELSE LineSep \o lines[k]
    IN  FlatMap(Piece, 1, Len(lines))

DropBlankLines(s) ==
    JoinLines(SelectSeq(SplitLines(s), LAMBDA l : ~IsBlankLine(l)))

(***************************************************************************)
(* JSONAIWorker._clean_json_string                                         *)
(***************************************************************************)
CleanJsonString(json_str) ==
    LET m == SearchJsonBlock(json_str)
    IN  IF ~m.found THEN json_str
        ELSE
          LET s2 == RemoveHashComments(RemoveSlashComments(m.block))
              s3 == EscapeNewlines(s2)
              s4 == InsertMissingCommas(s3)
              s5 == RemoveTrailingCommas(s4)
          IN  DropBlankLines(s5)

(***************************************************************************)
(* json.loads on a text.  A value is [t, v]: t the JSON type and v a text: *)
(* the decoded characters of a string, the source text of anything else.   *)
(* A dict is the sequence of its (key, value) pairs, a later duplicate key *)
(* replacing the earlier value as in a Python dict.                        *)
(***************************************************************************)
JsonFail == [ok |-> FALSE, val |-> [t |-> "none", v |-> <<>>], pairs |-> <<>>, next |-> 0]
JsonOk(val, next) == [ok |-> TRUE, val |-> val, pairs |-> <<>>, next |-> next]

StrVal(text) == [t |-> "str", v |-> text]
NullVal == [t |-> "null", v |-> <<"n","u","l","l">>]
TrueVal == [t |-> "bool", v |-> <<"t","r","u","e">>]
FalseVal == [t |-> "bool", v |-> <<"f","a","l","s","e">>]

DictHas(d, key) == \E i \in 1..Len(d) : d[i].k = key
DictGet(d, key) == d[CHOOSE i \in 1..Len(d) : d[i].k = key].val
DictSet(d, key, val) ==
    IF DictHas(d, key)
    THEN [i \in 1..Len(d) |-> IF d[i].k = key THEN [k |-> key, val |-> val] ELSE d[i]]
    ELSE Append(d, [k |-> key, val |-> val])

\* py_scanstring(s, end, strict=True): p is the index after the opening quote.
\* A character is escaped when an odd number of backslashes stands before it.
BackslashRun(s, p, i) ==
    CHOOSE d \in 0..(i - p) :
        /\ \A j \in (i - d)..(i - 1) : s[j] = BS
        /\ (i - d = p \/ s[i - d - 1] # BS)

IsEscaped(s, p, i) == BackslashRun(s, p, i) % 2 = 1
IsEscapeStart(s, p, i) == s[i] = BS /\ ~IsEscaped(s, p, i)

SimpleEscapes == {DQ, BS, "/"}
EscapeLetters == {"b", "f", "n", "r", "t"}
DecodeEscape(c) ==
    IF c \in SimpleEscapes THEN c
    ELSE IF c = "n" THEN NL
    ELSE IF c = "t" THEN "\t"
    ELSE IF c = "r" THEN "\r"
    ELSE IF c = "f" THEN "\f"
    ELSE IF c = "b" THEN "<backspace>"
    ELSE "<codepoint>"

ScanString(s, p) ==
    LET Closing(i) == s[i] = DQ /\ ~IsEscaped(s, p, i)
        found == \E i \in p..Len(s) : Closing(i)
        close == CHOOSE i \in p..Len(s) : Closing(i) /\ \A j \in p..(i - 1) : ~Closing(j)
        ValidEscape(i) ==
            \/ s[i + 1] \in SimpleEscapes \cup EscapeLetters
            \/ /\ s[i + 1] = "u"
               /\ i + 5 < close
               /\ \A k \in 2..5 : s[i + k] \in HexChars
        HexOfCodepoint(i) ==
            \E k \in 1..4 : i - k > p /\ s[i - k] = "u" /\ IsEscaped(s, p, i - k)
                               /\ IsEscapeStart(s, p, i - k - 1)
        Piece(i) ==
            IF IsEscapeStart(s, p, i) THEN <<>>
            ELSE IF IsEscaped(s, p, i) THEN <<DecodeEscape(s[i])>>
            ELSE IF HexOfCodepoint(i) THEN <<>>
            ELSE <<s[i]>>
    IN  IF ~found THEN JsonFail
        ELSE IF \E i \in p..(close - 1) :
                    \/ s[i] \in {NL, "\t", "\r", "\f"}
                    \/ IsEscapeStart(s, p, i) /\ ~ValidEscape(i)
             THEN JsonFail
        ELSE JsonOk(StrVal(FlatMap(Piece, p, close - 1)), close + 1)

\* NUMBER_RE of json.scanner: (-?(?:0|[1-9]\d*))(\.\d+)?([eE][-+]?\d+)?
Digits == {"0","1","2","3","4","5","6","7","8","9"}
ScanNumber(s, p) ==
    LET i0 == IF p <= Len(s) /\ s[p] = "-" THEN p + 1 ELSE p
        i1 == IF i0 <= Len(s) /\ s[i0] = "0" THEN i0 + 1
              ELSE IF i0 <= Len(s) /\ s[i0] \in Digits THEN SkipWhile(s, Digits, i0)
              ELSE 0
        i2 == IF /\ i1 > 0 /\ i1 + 1 <= Len(s) /\ s[i1] = "." /\ s[i1 + 1] \in Digits
              THEN SkipWhile(s, Digits, i1 + 1) ELSE i1
        e0 == IF i2 > 0 /\ i2 + 1 <= Len(s) /\ s[i2] \in {"e", "E"}
              THEN (IF s[i2 + 1] \in {"-", "+"} THEN i2 + 2 ELSE i2 + 1) ELSE 0
        i3 == IF e0 > 0 /\ e0 <= Len(s) /\ s[e0] \in Digits
              THEN SkipWhile(s, Digits, e0) ELSE i2
    IN  IF i1 = 0 THEN JsonFail
        ELSE JsonOk([t |-> "num", v |-> SubSeq(s, p, i3 - 1)], i3)

JsonLiterals ==
    << <<"n","u","l","l">>, <<"t","r","u","e">>, <<"f","a","l","s","e">>,
       <<"N","a","N">>, <<"I","n","f","i","n","i","t","y">>,
       <<"-","I","n","f","i","n","i","t","y">> >>
LiteralVal(lit) ==
    IF lit = <<"n","u","l","l">> THEN NullVal
    ELSE IF lit = <<"t","r","u","e">> THEN TrueVal
    ELSE IF lit = <<"f","a","l","s","e">> THEN FalseVal
    ELSE [t |-> "num", v |-> lit]

\* scan_once / JSONObject / JSONArray of json.decoder and json.scanner
RECURSIVE ScanOnce(_, _), ObjectMembers(_, _, _), ArrayItems(_, _)

\* e is the index of the first non-space character after a member's value
MemberEnd(s, e, more) ==
    IF e > Len(s) THEN JsonFail
    ELSE IF s[e] = "}" THEN [ok |-> TRUE, val |-> NullVal, pairs |-> more, next |-> e + 1]
    ELSE IF s[e] # "," THEN JsonFail
    ELSE IF SkipWhile(s, JsonSpace, e + 1) <= Len(s) /\ s[SkipWhile(s, JsonSpace, e + 1)] = DQ
         THEN ObjectMembers(s, SkipWhile(s, JsonSpace, e + 1), more)
         ELSE JsonFail

MemberValue(s, key, v, pairs) ==
    IF ~v.ok THEN JsonFail
    ELSE MemberEnd(s, SkipWhile(s, JsonSpace, v.next), DictSet(pairs, key.val.v, v.val))

\* c is the index of the first non-space character after a member's key
MemberColon(s, key, c, pairs) ==
    IF c > Len(s) \/ s[c] # ":" THEN JsonFail
    ELSE MemberValue(s, key, ScanOnce(s, SkipWhile(s, JsonSpace, c + 1)), pairs)

MemberKey(s, key, pairs) ==
    IF ~key.ok THEN JsonFail
    ELSE MemberColon(s, key, SkipWhile(s, JsonSpace, key.next), pairs)

\* p is the index of the opening quote of a key
ObjectMembers(s, p, pairs) == MemberKey(s, ScanString(s, p + 1), pairs)

\* e is the index of the first non-space character after an item
ItemEnd(s, e) ==
    IF e > Len(s) THEN JsonFail
    ELSE IF s[e] = "]" THEN JsonOk(NullVal, e + 1)
    ELSE IF s[e] # "," THEN JsonFail
    ELSE ArrayItems(s, SkipWhile(s, JsonSpace, e + 1))

ArrayItem(s, v) ==
    IF ~v.ok THEN JsonFail ELSE ItemEnd(s, SkipWhile(s, JsonSpace, v.next))

\* p is the index of the first character of an item
ArrayItems(s, p) == ArrayItem(s, ScanOnce(s, p))

ObjectResult(s, p, r) ==
    IF r.ok THEN [r EXCEPT !.val = [t |-> "obj", v |-> SubSeq(s, p, r.next - 1)]]
    ELSE JsonFail

ArrayResult(s, p, r) ==
    IF r.ok THEN JsonOk([t |-> "arr", v |-> SubSeq(s, p, r.next - 1)], r.next)
    ELSE JsonFail

\* s[p] opens an object or an array, q is the first non-space index after it
ScanOpen(s, p, q) ==
    IF s[p] = "{" THEN
        IF q <= Len(s) /\ s[q] = "}"
        THEN [ok |-> TRUE, val |-> [t |-> "obj", v |-> SubSeq(s, p, q)],
              pairs |-> <<>>, next |-> q + 1]
        ELSE IF q <= Len(s) /\ s[q] = DQ
        THEN ObjectResult(s, p, ObjectMembers(s, q, <<>>))
        ELSE JsonFail
    ELSE
        IF q <= Len(s) /\ s[q] = "]"
        THEN JsonOk([t |-> "arr", v |-> SubSeq(s, p, q)], q + 1)
        ELSE ArrayResult(s, p, ArrayItems(s, q))

ScanLiteral(s, p, lit) == JsonOk(LiteralVal(lit), p + Len(lit))

ScanOnce(s, p) ==
    IF p > Len(s) THEN JsonFail
    ELSE IF s[p] = DQ THEN ScanString(s, p + 1)
    ELSE IF s[p] \in {"{", "["} THEN ScanOpen(s, p, SkipWhile(s, JsonSpace, p + 1))
    ELSE IF \E i \in 1..Len(JsonLiterals) : StartsWithAt(s, p, JsonLiterals[i])
    THEN ScanLiteral(s, p, JsonLiterals[CHOOSE i \in 1..Len(JsonLiterals) :
                                            StartsWithAt(s, p, JsonLiterals[i])])
    ELSE ScanNumber(s, p)

\* json.loads(s): one value, white space around it, nothing else
LoadsResult(s, r) ==
    IF r.ok /\ SkipWhile(s, JsonSpace, r.next) = Len(s) + 1 THEN r ELSE JsonFail

JsonLoads(s) == LoadsResult(s, ScanOnce(s, SkipWhile(s, JsonSpace, 1)))

(***************************************************************************)
(* JSONAIWorker._create_fallback_response and _parse_ai_response           *)
(***************************************************************************)
K_action == <<"a","c","t","i","o","n">>
K_content == <<"c","o","n","t","e","n","t">>
K_explanation == <<"e","x","p","l","a","n","a","t","i","o","n">>

A_general_response == <<"g","e","n","e","r","a","l","_","r","e","s","p","o","n","s","e">>
A_add_comment == <<"a","d","d","_","c","o","m","m","e","n","t">>
\* the fixed explanation texts, one symbol each
E_fallback == <<"<raw text shown>">>
E_processed == <<"<request processed>">>

\* mutation of CreateFallbackResponse: the fallback carries the extracted block
CreateFallbackResponse_block(text) ==
    << [k |-> K_action, val |-> StrVal(A_general_response)],
       [k |-> K_content,
        val |-> StrVal(IF SearchJsonBlock(text).found
                       THEN SearchJsonBlock(text).block ELSE text)],
       [k |-> K_explanation, val |-> StrVal(E_fallback)] >>

CreateFallbackResponse(text) ==
    << [k |-> K_action, val |-> StrVal(A_general_response)],
       [k |-> K_content, val |-> StrVal(text)],
       [k |-> K_explanation, val |-> StrVal(E_fallback)] >>

\* mutation of DefaultMissing: the default replaces a value that was parsed
DefaultMissing_always(d, key, val) == DictSet(d, key, val)

DefaultMissing(d, key, val) == IF DictHas(d, key) THEN d ELSE DictSet(d, key, val)

\* the three `if key not in parsed` defaults, or the fallback on JSONDecodeError
ApplyDefaults(text, loaded) ==
    IF ~loaded.ok THEN CreateFallbackResponse(text)
    ELSE DefaultMissing(
             DefaultMissing(
                 DefaultMissing(loaded.pairs, K_action, StrVal(A_add_comment)),
                 K_content, StrVal(text)),
             K_explanation, StrVal(E_processed))

ParseBlock(text, json_match) ==
    IF ~json_match.found THEN CreateFallbackResponse(text)
    ELSE ApplyDefaults(text, JsonLoads(CleanJsonString(json_match.block)))

ParseAiResponse(text) == ParseBlock(text, SearchJsonBlock(text))

(***************************************************************************)
(* The replies the language model can send: a JSON action object written   *)
(* the way the system prompt asks for, with the defects the repair passes  *)
(* exist for, or plain prose.  `origin` records what was written.          *)
(***************************************************************************)
A_add_code == <<"a","d","d","_","c","o","d","e">>
A_create_file == <<"c","r","e","a","t","e","_","f","i","l","e">>
AbsentField == [t |-> "absent", v |-> <<>>]

SampleContents ==
    { <<>>,
      <<"x">>,
      <<"x", SP, "#", "y">>,
      <<"x", "#", "y">>,
      <<"h", ":", "/", "/", "x">>,
      <<"u", SP, "/", "/", "v">>,
      <<"a", ",", "}">>,
      <<"a", ",", "]">>,
      <<"l", NL, "m">>,
      <<"q", DQ, "r">> }

ProseSamples ==
    { <<>>,
      <<"n", "o">>,
      <<"{">>,
      <<"}", SP, "{">>,
      <<"{", "}">>,
      <<"{", "x", "}">> }

\* json.dumps of a string body; with escape = "raw" a newline is written as is
EncodeJsonChars(text, escape) ==
    LET Piece(p) ==
            IF text[p] = DQ THEN <<BS, DQ>>
            ELSE IF text[p] = BS THEN <<BS, BS>>
            ELSE IF text[p] = NL /\ escape = "json" THEN <<BS, "n">>
            ELSE <<text[p]>>
    IN  FlatMap(Piece, 1, Len(text))

RenderValue(val, escape) ==
    IF val.t = "str" THEN <<DQ>> \o EncodeJsonChars(val.v, escape) \o <<DQ>>
    ELSE val.v

RenderMember(key, val, escape) ==
    <<DQ>> \o key \o <<DQ, ":", SP>> \o RenderValue(val, escape)

OriginMembers(o) ==
    LET all == << [k |-> K_action, val |-> o.action],
                  [k |-> K_content, val |-> o.content],
                  [k |-> K_explanation, val |-> o.explanation] >>
    IN  SelectSeq(all, LAMBDA m : m.val.t # "absent")

RenderMembers(o) ==
    LET ms == OriginMembers(o)
        Piece(i) == (IF i = 1 THEN <<>> ELSE o.sep)
                        \o RenderMember(ms[i].k, ms[i].val, o.escape)
    IN  FlatMap(Piece, 1, Len(ms))

Wrappings ==
    { [before |-> <<>>, after |-> <<>>],
      [before |-> <<"h", "i", NL>>, after |-> <<NL, "b", "y", "e">>] }

Separators == { <<",", SP>>, <<",", NL>>, <<SP>> }
Tails == { <<>>, <<",">>, <<",", NL>> }

RenderReply(o) ==
    IF o.kind = "prose" THEN o.prose
    ELSE o.wrap.before \o <<"{">> \o RenderMembers(o)
            \o o.tail \o <<"}">> \o o.wrap.after

ObjectOrigins ==
    { o \in [ kind : {"object"}, prose : {<<>>}, wrap : Wrappings,
              action : {StrVal(A_add_code), NullVal, AbsentField},
              content : {StrVal(c) : c \in SampleContents} \cup {NullVal, AbsentField},
              explanation : {StrVal(<<"o", "k">>), AbsentField},
              sep : Separators, tail : Tails, escape : {"json", "raw"} ] :
        /\ o.escape = "raw" => (o.content.t = "str" /\ \E i \in 1..Len(o.content.v) : o.content.v[i] = NL)
        /\ o.tail # <<>> => OriginMembers(o) # <<>> }

ProseOrigins ==
    [ kind : {"prose"}, prose : ProseSamples, wrap : {[before |-> <<>>, after |-> <<>>]},
      action : {AbsentField}, content : {AbsentField}, explanation : {AbsentField},
      sep : {<<",", SP>>}, tail : {<<>>}, escape : {"json"} ]

Origins == ObjectOrigins \cup ProseOrigins

\* exactly one well-formed JSON action object, all three fields present
WellFormedOrigin(o) ==
    /\ o.kind = "object"
    /\ o.wrap = [before |-> <<>>, after |-> <<>>]
    /\ o.action.t = "str" /\ o.content.t = "str" /\ o.explanation.t = "str"
    /\ o.sep \in { <<",", SP>>, <<",", NL>> }
    /\ o.tail = <<>>
    /\ o.escape = "json"

\* the state of UnifiedFileManager and of the main window right after construction
EngineConstructed ==
    /\ open_files = <<>>
    /\ open_tabs = <<>>
    /\ current_file = NoPath
    /\ current_tab = NoPath
    /\ welcome_tab = TRUE
    /\ current_file_path = NoPath
    /\ removal_log = NoRemoval
    /\ inplace_log = NoInPlace
    /\ ignore_watcher_events = FALSE
    /\ reset_timers = <<>>
    /\ watch_queue = <<>>
    /\ mutating_calls = 0
    /\ external_writes = 0
    /\ last_call_age = -1
    /\ last_delivery = NoDelivery
    /\ history = <<>>
    /\ current_index = -1
    /\ last_return = NoReturn
    /\ current_folder = ""
    /\ create_log = NoCreate
    /\ watch_tree = <<>>
    /\ file_states = <<>>
    /\ watcher_pc = "constructed"
    /\ poll_events = <<>>
    /\ changed_since = <<>>

\* the state of JSONAIProcessor right after its constructor
CoordinatorConstructed ==
    /\ current_worker = 0
    /\ requests = 0
    /\ worker_pc = [w \in Workers |-> "none"]
    /\ is_cancelled = [w \in Workers |-> FALSE]
    /\ event_queue = <<>>
    /\ main_pc = "idle"
    /\ notifications = [w \in Workers |-> <<>>]
    /\ handled_at = [w \in Workers |-> 0]
    /\ rejected = 0
    /\ submitted_path = [w \in Workers |-> NoPath]
    /\ call_raised = [w \in Workers |-> FALSE]
    /\ joined = [w \in Workers |-> FALSE]
    /\ dispatched = [w \in Workers |-> NoDispatch]

InitRecoverer ==
    /\ working_dir = "project"
    /\ is_connected = TRUE
    /\ CoordinatorConstructed
    /\ EngineConstructed
    /\ disk = <<>>
    /\ origin \in Origins
    /\ response_text = RenderReply(origin)
    /\ recover_pc = "received"
    /\ parsed_response = <<>>

\* the worker hands the reply to _parse_ai_response
Recover ==
    /\ recover_pc = "received"
    /\ parsed_response' = ParseAiResponse(response_text)
    /\ recover_pc' = "parsed"
    /\ UNCHANGED <<response_text, origin, coordinatorVars, engineVars, dispatchVars,
                   watcherVars>>

NextRecoverer == Recover

SpecRecoverer == InitRecoverer /\ [][NextRecoverer]_vars

(***************************************************************************)
(* File Reconciliation Engine: UnifiedFileManager, the watcher signals it  *)
(* handles and the main-window slots connected to its signals.  A handler  *)
(* is a function from the state (a record Store) to the state after it.    *)
(***************************************************************************)
MaxMutatingCalls == 2
\* mutating calls in the workspace model, where every tab operation is open too
MaxWorkspaceCalls == 1
MaxExternalWrites == 1

\* QTimer.singleShot(500, self._reset_ignore_watcher_flag)
ResetDelayMs == 500
\* the clock of the model advances in steps of half that delay
TickMs == ResetDelayMs \div 2

Store ==
    [ disk |-> disk, open_files |-> open_files, open_tabs |-> open_tabs,
      current_file |-> current_file, tab |-> current_tab, welcome |-> welcome_tab,
      bound |-> current_file_path, removal |-> removal_log,
      ignore |-> ignore_watcher_events,
      timers |-> reset_timers, queue |-> watch_queue,
      history |-> history, index |-> current_index, ret |-> last_return ]

Commit(s) ==
    /\ disk' = s.disk
    /\ open_files' = s.open_files
    /\ open_tabs' = s.open_tabs
    /\ current_file' = s.current_file
    /\ current_tab' = s.tab
    /\ welcome_tab' = s.welcome
    /\ current_file_path' = s.bound
    /\ removal_log' = s.removal
    /\ ignore_watcher_events' = s.ignore
    /\ reset_timers' = s.timers
    /\ watch_queue' = s.queue
    /\ history' = s.history
    /\ current_index' = s.index
    /\ last_return' = s.ret

\* dict assignment d[k] = v and deletion
Put(d, k, v) == [x \in DOMAIN d \cup {k} |-> IF x = k THEN v ELSE d[x]]
Drop(d, k) == [x \in DOMAIN d \ {k} |-> d[x]]

\* str.encode(encoding, errors='ignore'): characters the encoding lacks are dropped
AsciiChars == WordChars \cup {SP, NL, DQ, BS, "/", ".", ":", "#", ",", "{", "}"}
Encode(content, encoding) ==
    IF encoding = "ascii" THEN SelectSeq(content, LAMBDA c : c \in AsciiChars)
    ELSE content

\* hashlib.md5(...).hexdigest(): equal exactly for equal byte strings
Md5(bytes) == [md5 |-> bytes]
ContentHash(content, encoding) == Md5(Encode(content, encoding))

\* self.file_encoding, from the configuration
FileEncoding == "utf-8"

\* _detect_file_encoding: what chardet reports, or file_encoding without chardet
DetectedEncodings(content) ==
    { IF \A i \in 1..Len(content) : content[i] \in AsciiChars THEN "ascii" ELSE "utf-8",
      FileEncoding }

\* the entry written by open_file, save_file and create_file_with_content
NewEntry(content, encoding) ==
    [ content |-> content, modified |-> FALSE, encoding |-> encoding,
      externally_modified |-> FALSE, externally_deleted |-> FALSE,
      last_known_disk_content_hash |-> ContentHash(content, encoding) ]

\* UnifiedFileManager.mark_file_modified; forced is "none" for modified=None
MarkFileModified(s, file_path, current_editor_content, forced) ==
    IF file_path \notin DOMAIN s.open_files THEN s
    ELSE LET file_info == s.open_files[file_path]
             differs == ContentHash(current_editor_content, file_info.encoding)
                            # file_info.last_known_disk_content_hash
         IN  [s EXCEPT !.open_files = Put(@, file_path,
                [file_info EXCEPT !.modified = IF forced = "none" THEN differs
                                               ELSE forced = "true",
                                  !.content = current_editor_content])]

\* EnhancedMainWindow.tab_changed, the slot of currentChanged, when the tab widget
\* now shows `tab` (NoPath: the welcome tab): current_file is the path registered
\* for the tab, and set_context binds the processor to it
TabChanged(s, tab) ==
    [s EXCEPT !.tab = tab, !.current_file = tab, !.bound = tab]

\* EnhancedMainWindow.add_editor_tab, reached from on_file_opened.  addTab on an
\* empty tab widget shows the new tab at once and emits currentChanged before
\* open_tabs holds the path: tab_changed then calls set_context(text, None)
AddEditorTab(s, file_path, content) ==
    IF file_path \in DOMAIN s.open_tabs
    THEN IF s.tab = file_path THEN s ELSE TabChanged(s, file_path)
    ELSE IF ~s.welcome /\ DOMAIN s.open_tabs = {}
    THEN [s EXCEPT !.open_tabs = Put(@, file_path, content), !.tab = file_path,
                   !.current_file = file_path, !.bound = NoPath]
    ELSE TabChanged([s EXCEPT !.open_tabs = Put(@, file_path, content)], file_path)

\* the record of an entry being removed or replaced
Removal(s, file_path, by, resolved) ==
    IF file_path \in DOMAIN s.open_files
    THEN [s EXCEPT !.removal = [path |-> file_path, by |-> by,
                                was_modified |-> s.open_files[file_path].modified,
                                resolved |-> resolved]]
    ELSE s

\* UnifiedFileManager.open_file of an existing file, with the slot on_file_opened
OpenFile(s, file_path, encoding) ==
    IF file_path \notin DOMAIN s.disk THEN s
    ELSE AddEditorTab(
             [Removal(s, file_path, "open_file", "none") EXCEPT
                  !.open_files = Put(@, file_path, NewEntry(s.disk[file_path], encoding))],
             file_path, s.disk[file_path])

\* EnhancedMainWindow.on_file_saved
OnFileSaved(s, file_path) ==
    IF s.tab # NoPath /\ s.current_file = file_path
    THEN MarkFileModified(s, file_path, s.open_tabs[s.tab], "false")
    ELSE s

\* QTimer.singleShot(500, ...) in the `finally` of every mutating call
ScheduleReset(s) == [s EXCEPT !.timers = Append(@, ResetDelayMs)]

\* the watcher thread sees a write and queues its notification
Notice(s, file_path, kind) ==
    [s EXCEPT !.queue = Append(@, [path |-> file_path, kind |-> kind])]

\* ---- FileHistoryManager ----
\* FileOperation(operation_type, source, destination, metadata={'content': ...})
FileOperation(operation_type, source, destination, content) ==
    [operation_type |-> operation_type, source |-> source,
     destination |-> destination, content |-> content]

\* history[:n]
Truncated(h, n) == SubSeq(h, 1, n)

\* mutation of AddOperation: the oldest record is kept when the list is full
AddOperation_unbounded(s, operation) ==
    [s EXCEPT !.history = Append(Truncated(@, s.index + 1), operation),
              !.index = s.index + 1]

\* FileHistoryManager.add_operation
AddOperation(s, operation) ==
    IF s.index + 2 > max_history
    THEN [s EXCEPT !.history = Tail(Append(Truncated(@, s.index + 1), operation)),
                   !.index = s.index]
    ELSE [s EXCEPT !.history = Append(Truncated(@, s.index + 1), operation),
                   !.index = s.index + 1]

CanUndo(s) == s.index >= 0
CanRedo(s) == s.index < Len(s.history) - 1

\* FileHistoryManager.undo and redo: the state after the call
HistoryUndo(s) == IF CanUndo(s) THEN [s EXCEPT !.index = @ - 1] ELSE s
HistoryRedo(s) == IF CanRedo(s) THEN [s EXCEPT !.index = @ + 1] ELSE s

\* what undo and redo return: the record, NoOperation for None
UndoReturns(s) == IF CanUndo(s) THEN s.history[s.index + 1] ELSE NoOperation
RedoReturns(s) == IF CanRedo(s) THEN s.history[s.index + 2] ELSE NoOperation

\* FileHistoryManager.clear_history
ClearHistory(s) == [s EXCEPT !.history = <<>>, !.index = -1]

\* UnifiedFileManager.save_file, with the slot on_file_saved; ok: the write succeeds
SaveFile(s, file_path, content, ok) ==
    IF ~ok THEN ScheduleReset([s EXCEPT !.ignore = TRUE])
    ELSE LET entry == IF file_path \in DOMAIN s.open_files
                      THEN [s.open_files[file_path] EXCEPT
                               !.content = content, !.modified = FALSE,
                               !.encoding = FileEncoding, !.externally_modified = FALSE,
                               !.last_known_disk_content_hash =
                                   ContentHash(content, FileEncoding)]
                      ELSE NewEntry(content, FileEncoding)
             written == [s EXCEPT !.ignore = TRUE,
                                  !.disk = Put(@, file_path, content),
                                  !.open_files = Put(@, file_path, entry)]
             logged == AddOperation(written,
                                    FileOperation("save", file_path, NoPath, content))
         IN  ScheduleReset(OnFileSaved(Notice(logged, file_path, "modified"), file_path))

\* mutation of HandleInternalFileChanged: the handler reloads the entry from disk
HandleInternalFileChanged_reload(s, file_path) ==
    IF s.ignore \/ file_path \notin DOMAIN s.open_files THEN s
    ELSE [s EXCEPT !.open_files = Put(@, file_path,
              [s.open_files[file_path] EXCEPT !.externally_modified = TRUE,
                                              !.content = s.disk[file_path]])]

\* UnifiedFileManager._handle_internal_file_changed
HandleInternalFileChanged(s, file_path) ==
    IF s.ignore THEN s
    ELSE IF file_path \in DOMAIN s.open_files
    THEN [s EXCEPT !.open_files = Put(@, file_path,
              [s.open_files[file_path] EXCEPT !.externally_modified = TRUE])]
    ELSE s

\* UnifiedFileManager._handle_internal_file_added: it only re-emits the signal
HandleInternalFileAdded(s, file_path) == s

\* UnifiedFileManager._handle_internal_file_removed
HandleInternalFileRemoved(s, file_path) ==
    IF s.ignore THEN s
    ELSE IF file_path \in DOMAIN s.open_files
    THEN [s EXCEPT !.open_files = Put(@, file_path,
              [s.open_files[file_path] EXCEPT !.externally_deleted = TRUE])]
    ELSE s

\* EnhancedFileManager._on_file_changed_externally (the other file manager class)
OnFileChangedExternally(s, file_path) ==
    IF file_path \in DOMAIN s.open_files
    THEN [s EXCEPT !.open_files = Put(@, file_path,
              [s.open_files[file_path] EXCEPT !.externally_modified = TRUE])]
    ELSE s

(***************************************************************************)
(* The workspace: several files, their tabs, and the engine operations     *)
(* that remove or replace an open_files entry.                             *)
(***************************************************************************)
\* UnifiedFileManager.close_file; reply: the answer to its question dialog
CloseFile(s, file_path, save_if_modified, reply, ok) ==
    IF file_path \notin DOMAIN s.open_files THEN s
    ELSE IF s.open_files[file_path].modified /\ save_if_modified
    THEN IF reply = "Cancel" THEN s
         ELSE IF reply = "Yes"
         THEN LET saved == SaveFile(s, file_path, s.open_files[file_path].content, ok)
              IN  IF ~ok THEN saved
                  ELSE [Removal([saved EXCEPT !.open_files = s.open_files],
                                file_path, "close_file", "saved")
                           EXCEPT !.open_files = Drop(saved.open_files, file_path)]
         ELSE [Removal(s, file_path, "close_file", "discarded")
                  EXCEPT !.open_files = Drop(@, file_path)]
    ELSE [Removal(s, file_path, "close_file", "none")
             EXCEPT !.open_files = Drop(@, file_path)]

\* UnifiedFileManager.delete_file of a file; ok: os.remove succeeds
DeleteFile(s, file_path, ok) ==
    IF file_path \notin DOMAIN s.disk THEN ScheduleReset(s)
    ELSE LET closed == [CloseFile(s, file_path, FALSE, "No", TRUE) EXCEPT !.ignore = TRUE]
         IN  IF ~ok THEN ScheduleReset(closed)
             ELSE ScheduleReset(Notice(
                      AddOperation([closed EXCEPT !.disk = Drop(@, file_path)],
                                   FileOperation("delete", file_path, NoPath, <<>>)),
                      file_path, "removed"))

\* UnifiedFileManager.save_file_as with the new path chosen in its dialog
SaveFileAs(s, current_path, content, new_path, ok) ==
    SaveFile([Removal(s, current_path, "save_file_as", IF ok THEN "saved" ELSE "none")
                 EXCEPT !.open_files = IF current_path \in DOMAIN @
                                       THEN Drop(@, current_path) ELSE @],
             new_path, content, ok)

\* what the tab widget can show: the editor tabs, and NoPath for the welcome tab
ShownTabs(s) == DOMAIN s.open_tabs \cup (IF s.welcome THEN {NoPath} ELSE {})

\* the end of EnhancedMainWindow.close_tab, after removeTab: tab_changed for the
\* tab now shown, or current_file = None when no tab is left
AfterRemoveTab(s, closed, next) ==
    IF ShownTabs(s) = {} THEN [s EXCEPT !.tab = NoPath, !.current_file = NoPath]
    ELSE TabChanged(s, IF closed THEN next ELSE s.tab)

\* EnhancedMainWindow.close_tab of an editor tab; next: the tab Qt shows afterwards
CloseTab(s, tab, reply, ok, next) ==
    AfterRemoveTab([CloseFile(s, tab, TRUE, reply, ok) EXCEPT !.open_tabs = Drop(@, tab)],
                   s.tab = tab, next)

\* EnhancedMainWindow.close_tab of the welcome tab
CloseWelcomeTab(s, next) ==
    AfterRemoveTab([s EXCEPT !.welcome = FALSE], s.tab = NoPath, next)

\* ---- the file of the engine model and the texts it can hold ----
AppPy == <<"a", "p", "p", ".", "p", "y">>
ProjectFile == [dir |-> "project", name |-> AppPy]
EditorTexts == { <<"a">>, <<"a", "é">> }
AiContents == { <<"b">> }
InPlaceActions == {"add_code", "replace_code", "optimize_code", "add_comment"}
ExternalTexts == { <<"x">> }

\* os.path text of a path
PathText(path) == <<path.dir, "/">> \o path.name

EngineFrame == UNCHANGED <<recovererVars, watcherVars, coordinatorVars, dispatchVars>>

\* EnhancedMainWindow.open_file -> UnifiedFileManager.open_file -> on_file_opened
UiOpenFile ==
    /\ \E file_path \in DOMAIN disk :
         \E encoding \in DetectedEncodings(disk[file_path]) :
             Commit(OpenFile(Store, file_path, encoding))
    /\ UNCHANGED <<mutating_calls, external_writes, last_call_age, last_delivery>>
    /\ EngineFrame

\* the user types: textChanged -> on_editor_changed -> mark_file_modified
UiEditorChanged ==
    /\ current_tab # NoPath
    /\ \E content \in EditorTexts \ {open_tabs[current_tab]} :
           LET typed == [Store EXCEPT !.open_tabs = Put(@, current_tab, content)]
           IN  Commit(IF current_file = current_tab
                      THEN MarkFileModified(typed, current_tab, content, "none")
                      ELSE typed)
    /\ UNCHANGED <<mutating_calls, external_writes, last_call_age, last_delivery>>
    /\ EngineFrame

MutatingCallReturns ==
    /\ mutating_calls < MaxMutatingCalls
    /\ mutating_calls' = mutating_calls + 1
    /\ last_call_age' = 0
    /\ UNCHANGED <<external_writes, last_delivery>>

\* EnhancedMainWindow.save_file -> UnifiedFileManager.save_file -> on_file_saved
UiSaveFile ==
    /\ current_tab # NoPath /\ current_file # NoPath
    /\ \E ok \in BOOLEAN :
           Commit(SaveFile(Store, current_file, open_tabs[current_tab], ok))
    /\ MutatingCallReturns
    /\ EngineFrame

\* the text _handle_ai_response saves for an in-place action: open_file returns
\* the path, and that return value is what the new content is built from
InPlaceNewContent(action, file_path, content) ==
    IF action = "add_code" THEN PathText(file_path) \o <<NL, NL>> \o content
    ELSE IF action = "add_comment" THEN PathText(file_path) \o <<NL>> \o content
    ELSE content

\* the engine calls _handle_ai_response makes for an in-place action
InPlaceCalls(s) ==
    IF s.bound = NoPath THEN <<>>
    ELSE IF s.bound \notin DOMAIN s.disk THEN <<"open_file">>
    ELSE <<"open_file", "save_file">>

\* _handle_ai_response for add_code, replace_code, optimize_code and add_comment
HandleAiCodeResponse(s, action, content, encoding, ok) ==
    IF Len(InPlaceCalls(s)) < 2 THEN s
    ELSE SaveFile(OpenFile(s, s.bound, encoding), s.bound,
                  InPlaceNewContent(action, s.bound, content), ok)

\* on_ai_response for a code action: the question dialog, then the editor update
OnAiCodeResponse(s, content, answer) ==
    IF s.tab = NoPath \/ s.current_file = NoPath THEN s
    ELSE IF answer = "No" THEN s
    ELSE MarkFileModified([s EXCEPT !.open_tabs = Put(@, s.tab, content)],
                          s.current_file, content, "none")

\* a code action of the AI: _handle_ai_response (open_file, save_file on the bound
\* file) and, through response_ready, on_ai_response
AiCodeUpdate ==
    /\ mutating_calls < MaxWorkspaceCalls
    /\ \E action \in InPlaceActions, content \in AiContents, answer \in {"Yes", "No"},
          ok \in BOOLEAN :
        \E encoding \in IF Len(InPlaceCalls(Store)) = 2
                        THEN DetectedEncodings(disk[current_file_path])
                        ELSE {FileEncoding} :
           /\ Len(InPlaceCalls(Store)) = 2 \/ ok
           /\ Commit(OnAiCodeResponse(
                         HandleAiCodeResponse(Store, action, content, encoding, ok),
                         content, answer))
           /\ inplace_log' =
                 [ ran |-> TRUE, action |-> action, bound |-> current_file_path,
                   content |-> content, answer |-> answer,
                   error |-> Len(InPlaceCalls(Store)) < 2 \/ ~ok,
                   calls |-> InPlaceCalls(Store),
                   file_text |-> IF current_file_path \in DOMAIN disk
                                 THEN disk[current_file_path] ELSE <<>>,
                   written |-> IF Len(InPlaceCalls(Store)) = 2
                               THEN InPlaceNewContent(action, current_file_path, content)
                               ELSE <<>> ]
    /\ mutating_calls' = mutating_calls + 1
    /\ last_call_age' = IF Len(InPlaceCalls(Store)) = 2 THEN 0 ELSE last_call_age
    /\ UNCHANGED <<external_writes, last_delivery, working_dir, current_folder,
                   create_log, recovererVars, watcherVars, coordinatorVars>>

\* another program writes the file; the watcher thread notices
ExternalWrite ==
    /\ external_writes < MaxExternalWrites
    /\ ProjectFile \in DOMAIN disk
    /\ \E content \in ExternalTexts :
           Commit(Notice([Store EXCEPT !.disk = Put(@, ProjectFile, content)],
                         ProjectFile, "modified"))
    /\ external_writes' = external_writes + 1
    /\ UNCHANGED <<mutating_calls, last_call_age, last_delivery>>
    /\ EngineFrame

\* the main thread handles the oldest watcher notification
WatcherDeliver ==
    /\ watch_queue # <<>>
    /\ Commit(IF Head(watch_queue).kind = "added"
              THEN HandleInternalFileAdded([Store EXCEPT !.queue = Tail(@)],
                                           Head(watch_queue).path)
              ELSE IF Head(watch_queue).kind = "removed"
              THEN HandleInternalFileRemoved([Store EXCEPT !.queue = Tail(@)],
                                             Head(watch_queue).path)
              ELSE HandleInternalFileChanged([Store EXCEPT !.queue = Tail(@)],
                                             Head(watch_queue).path))
    /\ last_delivery' =
          [ delivered |-> TRUE,
            in_window |-> last_call_age >= 0 /\ last_call_age < ResetDelayMs,
            after_window |-> last_call_age < 0 \/ last_call_age > ResetDelayMs,
            reported |-> ~ignore_watcher_events ]
    /\ UNCHANGED <<mutating_calls, external_writes, last_call_age>>
    /\ EngineFrame

\* a single-shot timer expires: _reset_ignore_watcher_flag
ResetIgnoreWatcherFlag ==
    /\ reset_timers # <<>> /\ Head(reset_timers) = 0
    /\ Commit([Store EXCEPT !.ignore = FALSE, !.timers = Tail(@)])
    /\ UNCHANGED <<mutating_calls, external_writes, last_call_age, last_delivery>>
    /\ EngineFrame

\* time passes: a clock step, or less when a timer expires earlier; it does not
\* pass over the expiry of a timer, which fires first
TickStep == IF reset_timers # <<>> /\ Head(reset_timers) < TickMs
            THEN Head(reset_timers) ELSE TickMs

Tick ==
    /\ \A i \in 1..Len(reset_timers) : reset_timers[i] > 0
    /\ reset_timers # <<>> \/ (last_call_age >= 0 /\ last_call_age <= ResetDelayMs)
    /\ reset_timers' = [i \in 1..Len(reset_timers) |-> reset_timers[i] - TickStep]
    /\ last_call_age' = IF last_call_age < 0 \/ last_call_age > ResetDelayMs
                        THEN last_call_age ELSE last_call_age + TickStep
    /\ UNCHANGED <<disk, open_files, open_tabs, current_file, current_tab, welcome_tab,
                   current_file_path, removal_log, ignore_watcher_events,
                   watch_queue, mutating_calls, external_writes, last_delivery,
                   history, current_index, last_return>>
    /\ EngineFrame

InitEngine ==
    /\ working_dir = "project"
    /\ EngineConstructed
    /\ disk \in { Put(<<>>, ProjectFile, text) : text \in EditorTexts }
    /\ is_connected = TRUE
    /\ CoordinatorConstructed
    /\ origin = [kind |-> "none"]
    /\ response_text = <<>>
    /\ recover_pc = "idle"
    /\ parsed_response = <<>>

NextEngine ==
    \/ UiOpenFile
    \/ UiEditorChanged
    \/ UiSaveFile
    \/ ExternalWrite
    \/ WatcherDeliver
    \/ ResetIgnoreWatcherFlag
    \/ Tick

SpecEngine == InitEngine /\ [][NextEngine]_vars

\* C5: for a tracked file, 'modified' is False after open_file and save_file and
\* afterwards True exactly when the editor content reported through
\* mark_file_modified hashes differently from last_known_disk_content_hash.
C5_ModifiedIffHashDiffers ==
    \A path \in DOMAIN open_files :
        open_files[path].modified =
            (ContentHash(open_files[path].content, open_files[path].encoding)
                 # open_files[path].last_known_disk_content_hash)

\* C8: handling a watcher 'modified' notification changes nothing of the state
\* but externally_modified of the entry of that path, which it sets to True;
\* the same holds for the handler of the other file manager class.
C8_Frame(before, after, path) ==
    /\ after.disk = before.disk /\ after.open_tabs = before.open_tabs
    /\ DOMAIN after.open_files = DOMAIN before.open_files
    /\ \A p \in DOMAIN before.open_files :
          \/ after.open_files[p] = before.open_files[p]
          \/ /\ p = path
             /\ after.open_files[p] = [before.open_files[p] EXCEPT !.externally_modified = TRUE]

C8_ExternalChangeNonClobber ==
    /\ [][IF Len(watch_queue') < Len(watch_queue)
           THEN C8_Frame(Store, [Store EXCEPT !.disk = disk', !.open_files = open_files',
                                              !.open_tabs = open_tabs'],
                         Head(watch_queue).path)
           ELSE TRUE]_vars
    /\ [](\A path \in DOMAIN open_files :
              C8_Frame(Store, OnFileChangedExternally(Store, path), path))

\* a notification was reported for a file with unsaved editor content
C8_Witness ==
    /\ last_delivery.reported
    /\ ProjectFile \in DOMAIN open_files
    /\ open_files[ProjectFile].externally_modified
    /\ open_files[ProjectFile].modified
    /\ open_files[ProjectFile].content # disk[ProjectFile]

\* C9: a notification delivered less than 500 ms after the latest mutating call
\* returned is suppressed, one delivered later than that is reported.
C9_SelfEchoSuppression ==
    /\ last_delivery.in_window => ~last_delivery.reported
    /\ last_delivery.after_window => last_delivery.reported

(***************************************************************************)
(* Async Request Coordinator: JSONAIProcessor (main thread) and the        *)
(* JSONAIWorker threads.  A signal emitted by a worker thread is queued    *)
(* for the main thread and handled there, in emission order.               *)
(***************************************************************************)
\* mutation of IsRunning: a processor that never sees its worker running
IsRunning_never(w) == FALSE

\* QThread.isRunning(): from start() until run() has returned
IsRunning(w) == worker_pc[w] \notin {"none", "done"}

\* the worker is inside chat.send_message
InLlmCall(w) == worker_pc[w] = "call"

Event(kind, w) == [kind |-> kind, worker |-> w]

\* current_worker.wait() has returned for worker w
Join(w) == joined' = [joined EXCEPT ![w] = TRUE]

\* process_user_input, after the optional cancel-and-wait: create and start a worker
StartWorker ==
    /\ requests' = requests + 1
    /\ current_worker' = requests + 1
    /\ worker_pc' = [worker_pc EXCEPT ![requests + 1] = "started"]
    /\ submitted_path' = [submitted_path EXCEPT ![requests + 1] = current_file_path]
    /\ main_pc' = "idle"

\* process_user_input up to its first blocking point
ProcessUserInput ==
    /\ main_pc = "idle"
    /\ requests < MaxRequests
    /\ IF ~is_connected
       THEN /\ rejected < MaxRejected
            /\ rejected' = rejected + 1
            /\ UNCHANGED <<current_worker, requests, worker_pc, is_cancelled, main_pc,
                           submitted_path>>
       ELSE IF current_worker # 0 /\ IsRunning(current_worker)
       THEN /\ is_cancelled' = [is_cancelled EXCEPT ![current_worker] = TRUE]
            /\ main_pc' = "process_user_input_wait"
            /\ UNCHANGED <<current_worker, requests, worker_pc, rejected, submitted_path>>
       ELSE /\ StartWorker
            /\ UNCHANGED <<is_cancelled, rejected>>
    /\ UNCHANGED <<is_connected, event_queue, notifications, handled_at, call_raised,
                   joined, dispatched, recovererVars, watcherVars, engineVars, dispatchVars>>

\* current_worker.wait() returns in process_user_input
ProcessUserInputResume ==
    /\ main_pc = "process_user_input_wait"
    /\ ~IsRunning(current_worker)
    /\ StartWorker
    /\ Join(current_worker)
    /\ UNCHANGED <<is_connected, is_cancelled, event_queue, notifications, handled_at,
                   rejected, call_raised, dispatched, recovererVars, watcherVars, engineVars,
                   dispatchVars>>

\* cancel_current_operation up to its blocking point
CancelCurrentOperation ==
    /\ main_pc = "idle"
    /\ current_worker # 0 /\ IsRunning(current_worker)
    /\ is_cancelled' = [is_cancelled EXCEPT ![current_worker] = TRUE]
    /\ main_pc' = "cancel_wait"
    /\ UNCHANGED <<is_connected, current_worker, requests, worker_pc, event_queue,
                   notifications, handled_at, rejected, submitted_path, call_raised,
                   joined, dispatched, recovererVars, watcherVars, engineVars, dispatchVars>>

\* current_worker.wait() returns in cancel_current_operation
CancelResume ==
    /\ main_pc = "cancel_wait"
    /\ ~IsRunning(current_worker)
    /\ main_pc' = "idle"
    /\ Join(current_worker)
    /\ UNCHANGED <<is_connected, current_worker, requests, worker_pc, is_cancelled,
                   event_queue, notifications, handled_at, rejected, submitted_path,
                   call_raised, dispatched, recovererVars, watcherVars, engineVars, dispatchVars>>

\* shutdown up to its blocking point, or all of it when no worker is running
Shutdown ==
    /\ main_pc = "idle"
    /\ IF current_worker # 0 /\ IsRunning(current_worker)
       THEN /\ is_cancelled' = [is_cancelled EXCEPT ![current_worker] = TRUE]
            /\ main_pc' = "shutdown_wait"
       ELSE /\ main_pc' = "closed"
            /\ UNCHANGED is_cancelled
    /\ UNCHANGED <<is_connected, current_worker, requests, worker_pc, event_queue,
                   notifications, handled_at, rejected, submitted_path, call_raised,
                   joined, dispatched, recovererVars, watcherVars, engineVars, dispatchVars>>

\* current_worker.wait() returns in shutdown; the application then quits
ShutdownResume ==
    /\ main_pc = "shutdown_wait"
    /\ ~IsRunning(current_worker)
    /\ main_pc' = "closed"
    /\ Join(current_worker)
    /\ UNCHANGED <<is_connected, current_worker, requests, worker_pc, is_cancelled,
                   event_queue, notifications, handled_at, rejected, submitted_path,
                   call_raised, dispatched, recovererVars, watcherVars, engineVars, dispatchVars>>

\* JSONAIProcessor.set_context, called by tab_changed on the main thread
SetContext ==
    /\ main_pc = "idle"
    /\ \E file_path \in DOMAIN disk \cup {NoPath} :
           /\ file_path # current_file_path
           /\ Commit([Store EXCEPT !.bound = file_path])
    /\ UNCHANGED <<mutating_calls, external_writes, last_call_age, last_delivery,
                   coordinatorVars, recovererVars, watcherVars, dispatchVars>>

\* the actions a response can carry: one in-place action, one without file effect
ResponseActions == {"add_code", "general_response"}
AiContent == <<"b">>

\* what open_file inside _handle_ai_response detects as the file's encoding
HandlerEncodings(s) ==
    IF s.bound \in DOMAIN s.disk THEN DetectedEncodings(s.disk[s.bound]) ELSE {FileEncoding}

\* the file _handle_ai_response saves for an in-place action, NoPath when none
DispatchRecord(s, after_join) ==
    [path |-> IF Len(InPlaceCalls(s)) = 2 THEN s.bound ELSE NoPath,
     after_join |-> after_join]

\* what the processor emits when _handle_ai_response gets a worker's response
HandlerNotification(outcome) == IF outcome = "raise" THEN "error" ELSE "response"

Notify(w, kind) ==
    notifications' = [notifications EXCEPT ![w] = Append(@, kind)]

\* the main thread takes the oldest queued signal and runs the slot connected to it
DeliverEvent ==
    /\ main_pc = "idle"
    /\ event_queue # <<>>
    /\ event_queue' = Tail(event_queue)
    /\ LET ev == Head(event_queue)
       IN  CASE ev.kind = "progress" ->
                  \* progress_updated.emit of the processor
                  /\ Notify(ev.worker, "progress")
                  /\ UNCHANGED <<current_worker, main_pc, handled_at, dispatched>>
                  /\ Commit(Store)
             [] ev.kind = "response" ->
                  \* _handle_ai_response: the in-place update of the bound file,
                  \* then response_ready; or error_occurred when it raises
                  /\ \E outcome \in {"ok", "raise"}, action \in ResponseActions :
                       \E encoding \in HandlerEncodings(Store) :
                         /\ Notify(ev.worker, HandlerNotification(outcome))
                         /\ IF outcome = "ok" /\ action \in InPlaceActions
                            THEN /\ Commit(HandleAiCodeResponse(Store, action, AiContent,
                                                                encoding, TRUE))
                                 /\ dispatched' = [dispatched EXCEPT ![ev.worker] =
                                        DispatchRecord(Store, joined[ev.worker])]
                            ELSE /\ Commit(Store)
                                 /\ UNCHANGED dispatched
                  /\ handled_at' = [handled_at EXCEPT ![ev.worker] = requests]
                  /\ UNCHANGED <<current_worker, main_pc>>
             [] ev.kind = "error" ->
                  \* error_occurred.emit of the processor
                  /\ Notify(ev.worker, "error")
                  /\ handled_at' = [handled_at EXCEPT ![ev.worker] = requests]
                  /\ UNCHANGED <<current_worker, main_pc, dispatched>>
                  /\ Commit(Store)
             [] ev.kind = "finished" ->
                  \* _worker_finished: it looks at current_worker, not at the sender
                  /\ IF current_worker = 0
                     THEN UNCHANGED <<current_worker, main_pc>>
                     ELSE IF IsRunning(current_worker)
                     THEN main_pc' = "worker_finished_wait" /\ UNCHANGED current_worker
                     ELSE current_worker' = 0 /\ UNCHANGED main_pc
                  /\ UNCHANGED <<notifications, handled_at, dispatched>>
                  /\ Commit(Store)
    /\ UNCHANGED <<is_connected, requests, worker_pc, is_cancelled, rejected,
                   submitted_path, call_raised, joined, mutating_calls, external_writes,
                   last_call_age, last_delivery, recovererVars, watcherVars, dispatchVars>>

\* current_worker.wait() returns in _worker_finished
WorkerFinishedResume ==
    /\ main_pc = "worker_finished_wait"
    /\ ~IsRunning(current_worker)
    /\ current_worker' = 0
    /\ main_pc' = "idle"
    /\ UNCHANGED <<is_connected, requests, worker_pc, is_cancelled, event_queue,
                   notifications, handled_at, rejected, submitted_path, call_raised,
                   joined, dispatched, recovererVars, watcherVars, engineVars, dispatchVars>>

\* ---- JSONAIWorker.run, one step of the thread of worker w ----
WorkerCallFrame == UNCHANGED <<is_connected, current_worker, requests, is_cancelled,
                               main_pc, notifications, handled_at, rejected,
                               submitted_path, joined, dispatched, recovererVars, watcherVars,
                               engineVars, dispatchVars>>
WorkerFrame == WorkerCallFrame /\ UNCHANGED call_raised

Goto(w, pc) == worker_pc' = [worker_pc EXCEPT ![w] = pc]
Emit(kind, w) == event_queue' = Append(event_queue, Event(kind, w))

\* progress_updated.emit, then the thread enters chat.send_message
WorkerBegin(w) ==
    /\ worker_pc[w] = "started"
    /\ Emit("progress", w)
    /\ Goto(w, "call")
    /\ WorkerFrame

\* chat.send_message returns a reply or raises
WorkerCallReturns(w) ==
    /\ worker_pc[w] = "call"
    /\ \E outcome \in {"reply", "raise"} :
           /\ Goto(w, IF outcome = "reply" THEN "replied" ELSE "except")
           /\ call_raised' = [call_raised EXCEPT ![w] = (outcome = "raise")]
    /\ UNCHANGED event_queue
    /\ WorkerCallFrame

\* `if self.is_cancelled: return`, else the second progress_updated.emit
WorkerAfterReply(w) ==
    /\ worker_pc[w] = "replied"
    /\ IF is_cancelled[w]
       THEN Goto(w, "returning") /\ UNCHANGED event_queue
       ELSE Goto(w, "parse") /\ Emit("progress", w)
    /\ WorkerFrame

\* _parse_ai_response and the log line after it, which raises on a null content
WorkerParse(w) ==
    /\ worker_pc[w] = "parse"
    /\ \E outcome \in {"parsed", "raise"} :
           Goto(w, IF outcome = "parsed" THEN "parsed" ELSE "except")
    /\ UNCHANGED event_queue
    /\ WorkerFrame

\* `if not self.is_cancelled:` before response_ready.emit
WorkerCheckBeforeEmit(w) ==
    /\ worker_pc[w] = "parsed"
    /\ Goto(w, IF is_cancelled[w] THEN "returning" ELSE "emit_response")
    /\ UNCHANGED event_queue
    /\ WorkerFrame

\* mutation of WorkerEmitResponse: after the emit, control falls into the handler
WorkerEmitResponse_fallthrough(w) ==
    /\ worker_pc[w] = "emit_response"
    /\ Emit("response", w)
    /\ Goto(w, "except")
    /\ WorkerFrame

\* response_ready.emit(parsed_response)
WorkerEmitResponse(w) ==
    /\ worker_pc[w] = "emit_response"
    /\ Emit("response", w)
    /\ Goto(w, "returning")
    /\ WorkerFrame

\* mutation of WorkerExcept: the handler only logs the exception
WorkerExcept_silent(w) ==
    /\ worker_pc[w] = "except"
    /\ Goto(w, "returning")
    /\ UNCHANGED event_queue
    /\ WorkerFrame

\* `except Exception`: `if not self.is_cancelled:` before error_occurred.emit
WorkerExcept(w) ==
    /\ worker_pc[w] = "except"
    /\ Goto(w, IF is_cancelled[w] THEN "returning" ELSE "emit_error")
    /\ UNCHANGED event_queue
    /\ WorkerFrame

\* error_occurred.emit(...)
WorkerEmitError(w) ==
    /\ worker_pc[w] = "emit_error"
    /\ Emit("error", w)
    /\ Goto(w, "returning")
    /\ WorkerFrame

\* run() returns: QThread emits finished and the thread stops running
WorkerReturn(w) ==
    /\ worker_pc[w] = "returning"
    /\ Emit("finished", w)
    /\ Goto(w, "done")
    /\ WorkerFrame

InitCoordinator ==
    /\ working_dir = "project"
    /\ is_connected \in BOOLEAN
    /\ CoordinatorConstructed
    /\ EngineConstructed
    /\ disk = <<>>
    /\ origin = [kind |-> "none"]
    /\ response_text = <<>>
    /\ recover_pc = "idle"
    /\ parsed_response = <<>>

NextCoordinator ==
    \/ ProcessUserInput
    \/ ProcessUserInputResume
    \/ CancelCurrentOperation
    \/ CancelResume
    \/ DeliverEvent
    \/ WorkerFinishedResume
    \/ \E w \in Workers :
        \/ WorkerBegin(w)
        \/ WorkerCallReturns(w)
        \/ WorkerAfterReply(w)
        \/ WorkerParse(w)
        \/ WorkerCheckBeforeEmit(w)
        \/ WorkerEmitResponse(w)
        \/ WorkerExcept(w)
        \/ WorkerEmitError(w)
        \/ WorkerReturn(w)

SpecCoordinator == InitCoordinator /\ [][NextCoordinator]_vars

\* A session of the connected processor over a project of two files: the
\* requests, the context changes of tab switches, and the shutdown at quit.
SecondFile == [dir |-> "project", name |-> <<"b", ".", "p", "y">>]

InitSession ==
    /\ working_dir = "project"
    /\ is_connected = TRUE
    /\ CoordinatorConstructed
    /\ EngineConstructed
    /\ disk = [path \in {ProjectFile, SecondFile} |-> <<"a">>]
    /\ origin = [kind |-> "none"]
    /\ response_text = <<>>
    /\ recover_pc = "idle"
    /\ parsed_response = <<>>

\* requests of a session
MaxSessionRequests == 2

NextSession ==
    \/ ProcessUserInput /\ requests < MaxSessionRequests
    \/ ProcessUserInputResume
    \/ CancelCurrentOperation
    \/ CancelResume
    \/ DeliverEvent
    \/ WorkerFinishedResume
    \/ \E w \in Workers :
        \/ WorkerBegin(w)
        \/ WorkerCallReturns(w)
        \/ WorkerAfterReply(w)
        \/ WorkerParse(w)
        \/ WorkerCheckBeforeEmit(w)
        \/ WorkerEmitResponse(w)
        \/ WorkerExcept(w)
        \/ WorkerEmitError(w)
        \/ WorkerReturn(w)
    \/ SetContext
    \/ Shutdown
    \/ ShutdownResume

SpecSession == InitSession /\ [][NextSession]_vars

\* ---- observations on the coordinator ----
Terminals == {"response", "error"}
TerminalCount(w) ==
    Cardinality({i \in 1..Len(notifications[w]) : notifications[w][i] \in Terminals})
QueuedFor(w) == \E i \in 1..Len(event_queue) : event_queue[i].worker = w
\* nothing of request w is still to come
Settled(w) == worker_pc[w] = "done" /\ ~QueuedFor(w)

\* C1: in every reachable state at most one worker is running an LLM call
\* (indeed at most one worker thread is running at all), and a worker is
\* only ever started when every earlier worker's thread has terminated.
C1_SingleFlight ==
    /\ Cardinality({w \in Workers : IsRunning(w)}) <= 1
    /\ Cardinality({w \in Workers : InLlmCall(w)}) <= 1
    /\ \A a, b \in Workers : (a < b /\ worker_pc[b] # "none") => ~IsRunning(a)

\* a superseded worker was cancelled and has terminated, its successor is in the LLM call
C1_Witness ==
    \E a, b \in Workers :
        /\ a < b
        /\ is_cancelled[a] /\ worker_pc[a] = "done"
        /\ InLlmCall(b)

\* C2: the result or error of a request is never handled after a later
\* request's worker has been started.
C2_NoStaleResult ==
    \A a \in Workers : handled_at[a] # 0 => handled_at[a] = a

\* C10: a request gets at most one terminal notification, nothing follows
\* it, progress comes before it, and a request that was not cancelled has
\* exactly one once its worker is done and its signals are handled.
C10_ExactlyOneTerminal ==
    \A w \in Workers :
        LET n == notifications[w]
        IN  /\ TerminalCount(w) <= 1
            /\ \A i \in 1..Len(n) : n[i] \in Terminals => (i = Len(n) /\ i > 1)
            /\ (Settled(w) /\ ~is_cancelled[w]) => TerminalCount(w) = 1

\* an uncancelled request ended with an error after two progress notifications
C10_Witness ==
    \E w \in Workers :
        /\ Settled(w) /\ ~is_cancelled[w]
        /\ notifications[w] = <<"progress", "progress", "error">>

(***************************************************************************)
(* Action Dispatcher, create_file: JSONAIProcessor._handle_ai_response and *)
(* the slot EnhancedMainWindow.on_ai_response its response_ready signal    *)
(* calls, with UnifiedFileManager.create_file_with_content.  A path is a   *)
(* record of its directory and its file name; a file_name of the response  *)
(* with dir "" is relative.                                                *)
(***************************************************************************)
Dirs == {"project", "home"}
\* os.path.expanduser("~")
HomeDir == "home"

\* os.path.join(directory, file_name), and open(file_name) with directory the
\* working directory: an absolute file_name discards the directory
JoinPath(directory, file_name) ==
    IF file_name.dir # "" THEN file_name
    ELSE [dir |-> directory, name |-> file_name.name]

\* os.path.splitext: the extension starts at the last dot, unless only dots
\* precede it in the name
Splitext(file_name) ==
    LET dotIndex == LastIndexOf(file_name, ".")
    IN  IF dotIndex > 0 /\ \E i \in 1..(dotIndex - 1) : file_name[i] # "."
        THEN [base_name |-> SubSeq(file_name, 1, dotIndex - 1),
              ext |-> SubSeq(file_name, dotIndex, Len(file_name))]
        ELSE [base_name |-> file_name, ext |-> <<>>]

\* str(counter) of an f-string
DecimalDigits == <<"0", "1", "2", "3", "4", "5", "6", "7", "8", "9">>
RECURSIVE IntStr(_)
IntStr(n) ==
    IF n < 10 THEN <<DecimalDigits[n + 1]>>
    ELSE IntStr(n \div 10) \o <<DecimalDigits[(n % 10) + 1]>>

CopySuffix == <<"_", "c", "o", "p", "y">>

\* f"{base_name}_copy{ext}" for the first name, f"{base_name}_copy{counter}{ext}" after
CopyName(base_name, ext, counter) ==
    base_name \o CopySuffix \o (IF counter = 1 THEN <<>> ELSE IntStr(counter)) \o ext

\* the loop `while os.path.exists(new_full_path_to_create)` of on_ai_response
RECURSIVE NewFullPathToCreate(_, _, _, _)
NewFullPathToCreate(files, target_directory, file_name, counter) ==
    LET parts == Splitext(file_name.name)
        new_full_path_to_create ==
            JoinPath(target_directory,
                     [file_name EXCEPT !.name = CopyName(parts.base_name, parts.ext, counter)])
    IN  IF new_full_path_to_create \in DOMAIN files
        THEN NewFullPathToCreate(files, target_directory, file_name, counter + 1)
        ELSE new_full_path_to_create

\* where the operating system finds a path: a relative one in the working directory
Located(file_path) == JoinPath(working_dir, file_path)

\* UnifiedFileManager.create_file_with_content; ok: open(file_path, 'w') succeeds
CreateFileWithContent(s, file_path, content, ok) ==
    IF ~ok THEN ScheduleReset([s EXCEPT !.ignore = TRUE])
    ELSE ScheduleReset(
             Notice(AddOperation(
                        [s EXCEPT !.ignore = TRUE,
                                  !.disk = Put(@, Located(file_path), content),
                                  !.open_files = Put(@, file_path,
                                                     NewEntry(content, FileEncoding))],
                        FileOperation("create", file_path, NoPath, content)),
                    Located(file_path),
                    IF Located(file_path) \in DOMAIN s.disk THEN "modified" ELSE "added"))

\* _handle_ai_response for action create_file: the file is created at once when
\* the response carries auto_create
HandleAiCreateResponse(s, auto_create, file_name, content, ok) ==
    IF auto_create THEN CreateFileWithContent(s, file_name, content, ok) ELSE s

\* on_ai_response, create_file: the directory the file is created in
TargetDirectory == IF current_folder = "" THEN HomeDir ELSE current_folder

\* on_ai_response, create_file: the path handed to create_file_with_content,
\* NoPath when the dialog is cancelled
FullPathToCreate(files, file_name, answer) ==
    LET full_path_to_create == JoinPath(TargetDirectory, file_name)
    IN  IF full_path_to_create \notin DOMAIN files THEN full_path_to_create
        ELSE IF answer = "Cancel" THEN NoPath
        ELSE IF answer = "No" THEN NewFullPathToCreate(files, TargetDirectory, file_name, 1)
        ELSE full_path_to_create

\* on_ai_response, create_file: create_file_with_content, then open_file(created_path)
OnAiCreateResponse(s, file_name, content, answer, ok, encoding) ==
    LET full_path_to_create == FullPathToCreate(s.disk, file_name, answer)
    IN  IF full_path_to_create = NoPath THEN s
        ELSE IF ~ok THEN CreateFileWithContent(s, full_path_to_create, content, FALSE)
        ELSE OpenFile(CreateFileWithContent(s, full_path_to_create, content, TRUE),
                      full_path_to_create, encoding)

\* ---- the responses and the files of the dispatcher model ----
DotE == <<".", "e">>
ResponseFileNames ==
    { [dir |-> "", name |-> AppPy], [dir |-> "project", name |-> AppPy],
      [dir |-> "", name |-> DotE] }
DialogAnswers == {"Yes", "No", "Cancel"}
OldText == <<"a">>
AppCopyPy == CopyName(<<"a", "p", "p">>, <<".", "p", "y">>, 1)
AppCopy2Py == CopyName(<<"a", "p", "p">>, <<".", "p", "y">>, 2)
ProjectFiles(names) == [path \in { [dir |-> "project", name |-> n] : n \in names } |-> OldText]
InitialDisks ==
    { ProjectFiles({}), ProjectFiles({AppPy}), ProjectFiles({AppPy, AppCopyPy}),
      ProjectFiles({AppPy, AppCopyPy, AppCopy2Py}) }

\* the writes of one pipeline, for the log: the path and whether the overwrite
\* policy had been chosen for it
PipelineWrites(auto_create, ok1, file_name, asked, answer, ok2) ==
    LET full_path_to_create == FullPathToCreate(asked, file_name, answer)
    IN  (IF auto_create /\ ok1
         THEN << [path |-> Located(file_name), chosen |-> FALSE] >> ELSE <<>>)
        \o (IF full_path_to_create # NoPath /\ ok2
            THEN << [path |-> full_path_to_create,
                     chosen |-> JoinPath(TargetDirectory, file_name) \in DOMAIN asked
                                /\ answer = "Yes"] >>
            ELSE <<>>)

\* a create_file response of the AI: _handle_ai_response and, through
\* response_ready, on_ai_response
AiCreateFile ==
    /\ mutating_calls < MaxMutatingCalls
    /\ \E auto_create \in BOOLEAN, file_name \in ResponseFileNames, content \in AiContents,
          answer \in DialogAnswers, ok1 \in BOOLEAN, ok2 \in BOOLEAN :
        \E encoding \in DetectedEncodings(content) :
          LET s1 == HandleAiCreateResponse(Store, auto_create, file_name, content, ok1)
              exists == JoinPath(TargetDirectory, file_name) \in DOMAIN s1.disk
              full_path_to_create == FullPathToCreate(s1.disk, file_name, answer)
          IN  /\ auto_create \/ ok1
              /\ exists \/ answer = "Yes"
              /\ full_path_to_create # NoPath \/ ok2
              /\ Commit(OnAiCreateResponse(s1, file_name, content, answer, ok2, encoding))
              /\ create_log' =
                    [ ran |-> TRUE, before |-> disk, asked |-> s1.disk,
                      file_name |-> file_name, target_directory |-> TargetDirectory,
                      answer |-> IF exists THEN answer ELSE "none",
                      writes |-> PipelineWrites(auto_create, ok1, file_name, s1.disk,
                                                answer, ok2),
                      written |-> IF ok2 THEN full_path_to_create ELSE NoPath ]
              /\ last_call_age' = IF auto_create \/ full_path_to_create # NoPath
                                  THEN 0 ELSE last_call_age
    /\ mutating_calls' = mutating_calls + 1
    /\ UNCHANGED <<external_writes, last_delivery, working_dir, current_folder,
                   inplace_log, recovererVars, watcherVars, coordinatorVars>>

\* UnifiedFileManager.open_folder on an existing directory
OpenFolder ==
    /\ \E folder_path \in Dirs \ {current_folder} : current_folder' = folder_path
    /\ UNCHANGED <<engineVars, working_dir, create_log, inplace_log, recovererVars, watcherVars,
                   coordinatorVars>>

InitDispatch ==
    /\ EngineConstructed
    /\ disk \in InitialDisks
    /\ working_dir \in Dirs
    /\ is_connected = TRUE
    /\ CoordinatorConstructed
    /\ origin = [kind |-> "none"]
    /\ response_text = <<>>
    /\ recover_pc = "idle"
    /\ parsed_response = <<>>

NextDispatch ==
    \/ AiCreateFile
    \/ OpenFolder

SpecDispatch == InitDispatch /\ [][NextDispatch]_vars

\* the n-th name the 'new copy' policy tries for the logged response
LoggedCopyPath(n) ==
    LET parts == Splitext(create_log.file_name.name)
    IN  JoinPath(create_log.target_directory,
                 [create_log.file_name EXCEPT
                      !.name = CopyName(parts.base_name, parts.ext, n)])

\* C6: when a create_file response targets an existing path and 'new copy' is
\* answered, the file that existed keeps its content, and the file is written
\* to a path absent from the disk before: the first free one among
\* <base>_copy<ext>, <base>_copy2<ext>, <base>_copy3<ext>, ...
C6_AutoRename ==
    (create_log.ran /\ create_log.answer = "No") =>
        LET target == JoinPath(create_log.target_directory, create_log.file_name)
        IN  /\ target \in DOMAIN create_log.before => disk[target] = create_log.before[target]
            /\ create_log.written # NoPath =>
                  /\ create_log.written \notin DOMAIN create_log.before
                  /\ \E n \in 1..(Cardinality(DOMAIN create_log.before) + 1) :
                        /\ create_log.written = LoggedCopyPath(n)
                        /\ \A m \in 1..(n - 1) : LoggedCopyPath(m) \in DOMAIN create_log.before

\* C7: a create_file response, with auto_create or without, writes over a file
\* that existed before it only after the overwrite policy was chosen for it.
C7_NoSilentOverwrite ==
    create_log.ran =>
        \A i \in 1..Len(create_log.writes) :
            create_log.writes[i].path \in DOMAIN create_log.before
                => create_log.writes[i].chosen

\* ---- the workspace model: the project file and a path for 'save as' ----
SavedAsFile == [dir |-> "project", name |-> <<"n", ".", "p", "y">>]
CloseReplies == {"Yes", "No", "Cancel"}

WorkspaceFrame ==
    UNCHANGED <<external_writes, last_delivery, recovererVars, watcherVars, coordinatorVars, dispatchVars>>

\* a mutating engine call was made in this step, or none
CountMutatingCall(made) ==
    /\ made => mutating_calls < MaxWorkspaceCalls
    /\ mutating_calls' = IF made THEN mutating_calls + 1 ELSE mutating_calls
    /\ last_call_age' = IF made THEN 0 ELSE last_call_age

\* the user clicks another tab: currentChanged -> tab_changed
UiSelectTab ==
    /\ \E tab \in ShownTabs(Store) \ {current_tab} : Commit(TabChanged(Store, tab))
    /\ CountMutatingCall(FALSE)
    /\ WorkspaceFrame

\* the user closes an editor tab: tabCloseRequested -> close_tab
UiCloseTab ==
    /\ \E tab \in DOMAIN open_tabs, reply \in CloseReplies, ok \in BOOLEAN :
          LET asked == tab \in DOMAIN open_files /\ open_files[tab].modified
              left == ShownTabs(Store) \ {tab}
          IN  /\ asked \/ reply = "No"
              /\ (asked /\ reply = "Yes") \/ ok
              /\ \E next \in IF left = {} \/ current_tab # tab THEN {NoPath} ELSE left :
                     Commit(CloseTab(Store, tab, reply, ok, next))
              /\ CountMutatingCall(asked /\ reply = "Yes")
    /\ WorkspaceFrame

\* the user closes the welcome tab
UiCloseWelcomeTab ==
    /\ welcome_tab
    /\ \E next \in IF DOMAIN open_tabs = {} \/ current_tab # NoPath
                   THEN {NoPath} ELSE DOMAIN open_tabs :
           Commit(CloseWelcomeTab(Store, next))
    /\ CountMutatingCall(FALSE)
    /\ WorkspaceFrame

\* EnhancedMainWindow.save_file_as -> UnifiedFileManager.save_file_as
UiSaveFileAs ==
    /\ current_tab # NoPath
    /\ \E ok \in BOOLEAN :
          LET saved == SaveFileAs(Store, current_file, open_tabs[current_tab],
                                  SavedAsFile, ok)
          IN  Commit(IF ok THEN [saved EXCEPT !.current_file = SavedAsFile] ELSE saved)
    /\ CountMutatingCall(TRUE)
    /\ WorkspaceFrame

\* a file is deleted through the file manager: UnifiedFileManager.delete_file
UiDeleteFile ==
    /\ \E file_path \in DOMAIN disk, ok \in BOOLEAN :
           Commit(DeleteFile(Store, file_path, ok))
    /\ CountMutatingCall(TRUE)
    /\ WorkspaceFrame

InitWorkspace ==
    /\ working_dir = "project"
    /\ EngineConstructed
    /\ disk = [path \in {ProjectFile} |-> OldText]
    /\ is_connected = TRUE
    /\ CoordinatorConstructed
    /\ origin = [kind |-> "none"]
    /\ response_text = <<>>
    /\ recover_pc = "idle"
    /\ parsed_response = <<>>

NextWorkspace ==
    \/ UiOpenFile
    \/ UiSelectTab
    \/ UiCloseTab
    \/ UiCloseWelcomeTab
    \/ UiEditorChanged
    \/ UiSaveFile
    \/ UiSaveFileAs
    \/ UiDeleteFile
    \/ AiCodeUpdate

SpecWorkspace == InitWorkspace /\ [][NextWorkspace]_vars

\* C11: an in-place action handled while no file is bound reports an error,
\* calls neither open_file nor save_file, and leaves every file on disk and
\* every open_files entry as it was.
C11_NoActiveFile ==
    [][(AiCodeUpdate /\ current_file_path = NoPath) =>
           /\ inplace_log'.error
           /\ inplace_log'.calls = <<>>
           /\ disk' = disk
           /\ open_files' = open_files]_vars

\* C14: an open_files entry whose modified flag is True is removed or replaced
\* (by close_file, delete_file, save_file_as, or open_file of a tracked path)
\* only after it was resolved: its save succeeded or discard was chosen.
C14_NoSilentDiscard ==
    (removal_log.path # NoPath /\ removal_log.was_modified) =>
        removal_log.resolved \in {"saved", "discarded"}

\* the content the in-place action is specified to write
InPlaceExpected(action, file_text, content) ==
    IF action = "add_code" THEN file_text \o <<NL, NL>> \o content
    ELSE IF action = "add_comment" THEN file_text \o <<NL>> \o content
    ELSE content

\* C16: with a bound file, add_code writes the file's current text, a blank
\* line, then the content; add_comment the current text, a newline, then the
\* content; replace_code and optimize_code exactly the content.  The current
\* text is the text of the bound file, not its path.
C16_InPlaceResult ==
    (inplace_log.ran /\ Len(inplace_log.calls) = 2 /\ ~inplace_log.error) =>
        inplace_log.written =
            InPlaceExpected(inplace_log.action, inplace_log.file_text,
                            inplace_log.content)

\* C3: for every raw reply text, _parse_ai_response returns an action object
\* whose 'action' and 'content' are both present and not null.
C3_RecovererTotal ==
    recover_pc = "parsed" =>
        /\ DictHas(parsed_response, K_action)
        /\ DictGet(parsed_response, K_action).t # "null"
        /\ DictHas(parsed_response, K_content)
        /\ DictGet(parsed_response, K_content).t # "null"

\* C4: when the reply is exactly one well-formed JSON action object with
\* action, content and explanation present, recovery returns every field
\* with exactly the value that was written, whatever the content string.
C4_DefaultingIdempotent ==
    (recover_pc = "parsed" /\ WellFormedOrigin(origin)) =>
        /\ DictGet(parsed_response, K_action) = origin.action
        /\ DictGet(parsed_response, K_content) = origin.content
        /\ DictGet(parsed_response, K_explanation) = origin.explanation

(***************************************************************************)
(* Recovery of one reply: fallback, defaulting, repair of raw newlines     *)
(***************************************************************************)
\* the text has a "{" followed later by a "}"
HasBracePair(text) ==
    \E i \in 1..Len(text) : \E j \in (i + 1)..Len(text) :
        text[i] = "{" /\ text[j] = "}"

\* the candidate block: first "{" to last "}"
CandidateBlock(text) ==
    SubSeq(text, IndexOfAny(text, {"{"}, 1), LastIndexOf(text, "}"))

\* json.loads of the repaired candidate block
LoadedCandidate(text) == JsonLoads(CleanJsonString(CandidateBlock(text)))

Unrecoverable(text) == ~HasBracePair(text) \/ ~LoadedCandidate(text).ok

IsFallbackOf(result, text) ==
    /\ Len(result) = 3
    /\ DictGet(result, K_action) = StrVal(A_general_response)
    /\ DictGet(result, K_content) = StrVal(text)
    /\ DictGet(result, K_explanation) = StrVal(E_fallback)

\* C12: when the raw reply has no "{" followed later by a "}", or the repaired
\* candidate block fails to parse, the result is the fallback action whose
\* content is the whole raw text and whose explanation is the fallback text.
C12_FallbackOnUnrecoverable ==
    (recover_pc = "parsed" /\ Unrecoverable(response_text)) =>
        IsFallbackOf(parsed_response, response_text)

\* a reply wrapped in prose whose block is found but does not parse
C12_Witness ==
    /\ recover_pc = "parsed"
    /\ HasBracePair(response_text)
    /\ ~LoadedCandidate(response_text).ok
    /\ response_text # CandidateBlock(response_text)
    /\ IsFallbackOf(parsed_response, response_text)

DefaultOf(key, text) ==
    IF key = K_action THEN StrVal(A_add_comment)
    ELSE IF key = K_content THEN StrVal(text)
    ELSE StrVal(E_processed)

FieldDefaulted(result, pairs, key, text) ==
    /\ DictHas(result, key)
    /\ DictGet(result, key) =
           IF DictHas(pairs, key) THEN DictGet(pairs, key) ELSE DefaultOf(key, text)

\* C13: when the candidate block parses, a missing action becomes
\* add_comment, a missing content becomes the full raw reply, a missing
\* explanation becomes the generic text, and every key the parsed object
\* holds keeps its parsed value.
C13_FieldDefaulting ==
    (recover_pc = "parsed" /\ ~Unrecoverable(response_text)) =>
        /\ \A key \in {K_action, K_content, K_explanation} :
               FieldDefaulted(parsed_response, LoadedCandidate(response_text).pairs,
                              key, response_text)
        /\ \A i \in 1..Len(LoadedCandidate(response_text).pairs) :
               DictGet(parsed_response, LoadedCandidate(response_text).pairs[i].k)
                   = DictGet(LoadedCandidate(response_text).pairs,
                             LoadedCandidate(response_text).pairs[i].k)

\* a wrapped reply that parses with content missing and explanation present
C13_Witness ==
    /\ recover_pc = "parsed"
    /\ ~Unrecoverable(response_text)
    /\ response_text # CandidateBlock(response_text)
    /\ ~DictHas(LoadedCandidate(response_text).pairs, K_content)
    /\ DictHas(LoadedCandidate(response_text).pairs, K_explanation)
    /\ DictGet(parsed_response, K_content) = StrVal(response_text)

\* the reply is a valid action object except that a newline inside the
\* content string is written raw
RawNewlineOrigin(o) ==
    /\ o.kind = "object"
    /\ o.action.t = "str" /\ o.content.t = "str" /\ o.explanation.t = "str"
    /\ o.sep \in { <<",", SP>>, <<",", NL>> }
    /\ o.tail = <<>>
    /\ o.escape = "raw"

\* C20: a reply whose only defect is a raw newline inside a quoted string
\* value is recovered as the structured action: the action kind that was
\* written and a content that contains the newline, not the fallback.
C20_RawNewlineRepaired ==
    (recover_pc = "parsed" /\ RawNewlineOrigin(origin)) =>
        /\ DictGet(parsed_response, K_action) = origin.action
        /\ DictGet(parsed_response, K_content) = origin.content
        /\ ~IsFallbackOf(parsed_response, response_text)

(***************************************************************************)
(* Errors, cancellation and the bound file of a request                    *)
(***************************************************************************)
CountOf(w, kind) ==
    Cardinality({i \in 1..Len(notifications[w]) : notifications[w][i] = kind})

\* C15: when the LLM call of a request raises, no response_ready is emitted
\* for the request and at most one error_occurred, exactly one once an
\* uncancelled request is settled; an input submitted while the processor is
\* not connected emits error_occurred and starts no worker.
C15_TransportErrorReported ==
    /\ [](\A w \in Workers : call_raised[w] =>
             /\ CountOf(w, "response") = 0
             /\ CountOf(w, "error") <= 1
             /\ (Settled(w) /\ ~is_cancelled[w]) => CountOf(w, "error") = 1)
    /\ [][(ProcessUserInput /\ ~is_connected) =>
             /\ rejected' = rejected + 1
             /\ requests' = requests
             /\ worker_pc' = worker_pc]_vars

\* an uncancelled request whose LLM call raised is settled with its one error
C15_Witness ==
    \E w \in Workers :
        /\ call_raised[w] /\ Settled(w) /\ ~is_cancelled[w]
        /\ notifications[w] = <<"progress", "error">>

\* C17: the file a response updates in place is the file that was bound when
\* its request was submitted, also when set_context changed the bound file
\* while the request was in flight.
C17_TargetBoundAtSubmission ==
    \A w \in Workers :
        dispatched[w].path # NoPath => dispatched[w].path = submitted_path[w]

\* C18: once cancel() has been called on a worker, the worker starts no LLM
\* call it had not yet started and emits neither response_ready nor
\* error_occurred.
C18_CooperativeCancellation ==
    [][\A w \in Workers :
          is_cancelled[w] =>
              ~(WorkerBegin(w) \/ WorkerEmitResponse(w) \/ WorkerEmitError(w))]_vars

C19_ThreadTerminated == \A w \in Workers : joined[w] => ~IsRunning(w)

(***************************************************************************)
(* Repair of a missing comma                                               *)
(***************************************************************************)
\* the reply is a valid action object of at least two string fields, except
\* that its members are separated by white space only
MissingCommaOrigin(o) ==
    /\ o.kind = "object"
    /\ Len(OriginMembers(o)) >= 2
    /\ \A i \in 1..Len(OriginMembers(o)) : OriginMembers(o)[i].val.t = "str"
    /\ o.sep = <<SP>>
    /\ o.tail = <<>>
    /\ o.escape = "json"

\* the reply is an object whose members are all separated by commas
CommaOrigin(o) ==
    /\ o.kind = "object"
    /\ o.sep \in { <<",", SP>>, <<",", NL>> }
    /\ o.tail = <<>>
    /\ o.escape = "json"

\* C21: where a quoted value is followed across white space by another quoted
\* key with no comma, the repair inserts the comma and the block parses with
\* all its fields; a block that already has its commas is left unchanged by
\* the comma pass.
C21_MissingCommaRepaired ==
    recover_pc = "parsed" =>
        /\ MissingCommaOrigin(origin) =>
              /\ ~IsFallbackOf(parsed_response, response_text)
              /\ \A i \in 1..Len(OriginMembers(origin)) :
                     /\ DictHas(parsed_response, OriginMembers(origin)[i].k)
                     /\ DictGet(parsed_response, OriginMembers(origin)[i].k)
                            = OriginMembers(origin)[i].val
        /\ CommaOrigin(origin) =>
              InsertMissingCommas(CandidateBlock(response_text))
                  = CandidateBlock(response_text)

\* the second half of C21 alone
C21_CommaBlockUnchanged ==
    (recover_pc = "parsed" /\ CommaOrigin(origin)) =>
        InsertMissingCommas(CandidateBlock(response_text)) = CandidateBlock(response_text)

(***************************************************************************)
(* The interface of UnifiedFileManager called directly: file operations,   *)
(* mark_file_modified, undo and redo, over two paths of one project.       *)
(***************************************************************************)
MaxApiCalls == 3
ApiPaths == {ProjectFile, SecondFile}
ApiTexts == { <<"a">>, <<"b">> }
\* an entry that has no 'last_known_disk_content_hash' key
NoHash == [md5 |-> <<"missing">>]

Returned(s, call, value) == [s EXCEPT !.ret = [call |-> call, value |-> value]]

\* UnifiedFileManager.create_file: its entry holds no disk hash
CreateFile(s, file_path, content, ok) ==
    IF ~ok THEN ScheduleReset([s EXCEPT !.ignore = TRUE])
    ELSE ScheduleReset(
             Notice(AddOperation(
                        [s EXCEPT !.ignore = TRUE,
                                  !.disk = Put(@, file_path, content),
                                  !.open_files = Put(@, file_path,
                                      [NewEntry(content, FileEncoding) EXCEPT
                                           !.last_known_disk_content_hash = NoHash])],
                        FileOperation("create", file_path, NoPath, content)),
                    file_path,
                    IF file_path \in DOMAIN s.disk THEN "modified" ELSE "added"))

\* os.rename / shutil.move of a file on disk, and what the watcher sees of it
MovedOnDisk(s, source, destination) ==
    Notice(Notice([s EXCEPT !.disk = Put(Drop(@, source), destination, s.disk[source])],
                  source, "removed"),
           destination, IF destination \in DOMAIN s.disk THEN "modified" ELSE "added")

\* UnifiedFileManager.rename_file
RenameFile(s, old_path, new_path) ==
    IF old_path \notin DOMAIN s.disk \/ new_path \in DOMAIN s.disk THEN ScheduleReset(s)
    ELSE LET moved == MovedOnDisk([s EXCEPT !.ignore = TRUE], old_path, new_path)
             tracked ==
                 IF old_path \in DOMAIN s.open_files
                 THEN [moved EXCEPT !.open_files =
                          Put(Drop(@, old_path), new_path,
                              [s.open_files[old_path] EXCEPT !.modified = TRUE])]
                 ELSE moved
         IN  ScheduleReset(AddOperation(tracked,
                               FileOperation("rename", old_path, new_path, <<>>)))

\* UnifiedFileManager.move_file
MoveFile(s, source_path, dest_path) ==
    IF source_path \notin DOMAIN s.disk THEN ScheduleReset(s)
    ELSE LET moved == MovedOnDisk([s EXCEPT !.ignore = TRUE], source_path, dest_path)
             tracked ==
                 IF source_path \in DOMAIN s.open_files
                 THEN [moved EXCEPT !.open_files =
                          Put(Drop(@, source_path), dest_path, s.open_files[source_path])]
                 ELSE moved
         IN  ScheduleReset(AddOperation(tracked,
                               FileOperation("move", source_path, dest_path, <<>>)))

\* shutil.copy2 of a file, and what the watcher sees of it
CopiedOnDisk(s, source, destination) ==
    Notice([s EXCEPT !.disk = Put(@, destination, s.disk[source])],
           destination, IF destination \in DOMAIN s.disk THEN "modified" ELSE "added")

\* os.remove of a file, and what the watcher sees of it
RemovedOnDisk(s, file_path) ==
    Notice([s EXCEPT !.disk = Drop(@, file_path)], file_path, "removed")

\* UnifiedFileManager.copy_file
CopyFile(s, source_path, dest_path) ==
    IF source_path \notin DOMAIN s.disk THEN ScheduleReset(s)
    ELSE ScheduleReset(AddOperation(
             CopiedOnDisk([s EXCEPT !.ignore = TRUE], source_path, dest_path),
             FileOperation("copy", source_path, dest_path, <<>>)))

\* undo_last_operation can act on the record: its type is supported and the
\* file it needs exists
UndoApplies(s, operation) ==
    \/ operation.operation_type = "create" /\ operation.source \in DOMAIN s.disk
    \/ operation.operation_type \in {"rename", "move", "copy"}
          /\ operation.destination \in DOMAIN s.disk

\* the file system part of undo_last_operation
UndoOnDisk(s, operation) ==
    IF operation.operation_type = "create" THEN RemovedOnDisk(s, operation.source)
    ELSE IF operation.operation_type = "copy" THEN RemovedOnDisk(s, operation.destination)
    ELSE MovedOnDisk(s, operation.destination, operation.source)

\* UnifiedFileManager.undo_last_operation; ok: no call of the os module raises
UndoLastOperation(s, ok) ==
    IF ~CanUndo(s) THEN Returned(s, "undo", "False")
    ELSE IF UndoReturns(s).operation_type \in {"delete", "save"}
                \/ ~UndoApplies(s, UndoReturns(s)) \/ ~ok
    THEN Returned(ScheduleReset([HistoryUndo(s) EXCEPT !.ignore = TRUE]), "undo", "False")
    ELSE Returned(ScheduleReset(UndoOnDisk([HistoryUndo(s) EXCEPT !.ignore = TRUE],
                                           UndoReturns(s))),
                  "undo", "True")

\* redo_last_operation can act on the record
RedoApplies(s, operation) ==
    \/ operation.operation_type = "create" /\ operation.source \notin DOMAIN s.disk
    \/ operation.operation_type \in {"rename", "move", "copy", "save"}
          /\ operation.source \in DOMAIN s.disk

\* the branch of redo_last_operation for the record; `save` calls save_file
RedoOnDisk(s, operation) ==
    IF operation.operation_type = "create"
    THEN Notice([s EXCEPT !.disk = Put(@, operation.source, operation.content)],
                operation.source, "added")
    ELSE IF operation.operation_type = "copy"
    THEN CopiedOnDisk(s, operation.source, operation.destination)
    ELSE IF operation.operation_type = "save"
    THEN SaveFile(s, operation.source, operation.content, TRUE)
    ELSE MovedOnDisk(s, operation.source, operation.destination)

\* UnifiedFileManager.redo_last_operation; ok: no call of the os module raises
RedoLastOperation(s, ok) ==
    IF ~CanRedo(s) THEN Returned(s, "redo", "False")
    ELSE IF RedoReturns(s).operation_type = "delete"
                \/ ~RedoApplies(s, RedoReturns(s)) \/ ~ok
    THEN Returned(ScheduleReset([HistoryRedo(s) EXCEPT !.ignore = TRUE]), "redo", "False")
    ELSE Returned(ScheduleReset(RedoOnDisk([HistoryRedo(s) EXCEPT !.ignore = TRUE],
                                           RedoReturns(s))),
                  "redo", "True")

\* the state one call of the interface leaves
ApiCommit(s, call) ==
    Commit(IF call \in {"undo", "redo"} THEN s ELSE Returned(s, call, "other"))

\* the call is counted
ApiCounted ==
    /\ mutating_calls < MaxApiCalls
    /\ mutating_calls' = mutating_calls + 1
    /\ last_call_age' = 0
    /\ UNCHANGED <<external_writes, last_delivery>>
    /\ EngineFrame

ApiCreateFile ==
    /\ \E file_path \in ApiPaths, content \in ApiTexts :
           ApiCommit(CreateFile(Store, file_path, content, TRUE), "create_file")
    /\ ApiCounted

ApiCreateFileWithContent ==
    /\ \E file_path \in ApiPaths, content \in ApiTexts :
           ApiCommit(CreateFileWithContent(Store, file_path, content, TRUE),
                     "create_file_with_content")
    /\ ApiCounted

ApiOpenFile ==
    /\ \E file_path \in DOMAIN disk :
           \E encoding \in DetectedEncodings(disk[file_path]) :
               ApiCommit(OpenFile(Store, file_path, encoding), "open_file")
    /\ ApiCounted

ApiSaveFile ==
    /\ \E file_path \in ApiPaths, content \in ApiTexts :
           ApiCommit(SaveFile(Store, file_path, content, TRUE), "save_file")
    /\ ApiCounted

ApiDeleteFile ==
    /\ \E file_path \in ApiPaths :
           ApiCommit(DeleteFile(Store, file_path, TRUE), "delete_file")
    /\ ApiCounted

ApiRenameFile ==
    /\ \E old_path \in ApiPaths, new_path \in ApiPaths :
           /\ old_path # new_path
           /\ ApiCommit(RenameFile(Store, old_path, new_path), "rename_file")
    /\ ApiCounted

ApiMoveFile ==
    /\ \E source_path \in ApiPaths, dest_path \in ApiPaths :
           /\ source_path # dest_path
           /\ ApiCommit(MoveFile(Store, source_path, dest_path), "move_file")
    /\ ApiCounted

ApiCopyFile ==
    /\ \E source_path \in ApiPaths, dest_path \in ApiPaths :
           /\ source_path # dest_path
           /\ ApiCommit(CopyFile(Store, source_path, dest_path), "copy_file")
    /\ ApiCounted

ApiMarkFileModified ==
    /\ \E file_path \in DOMAIN open_files, content \in ApiTexts,
          modified \in {"none", "true", "false"} :
           ApiCommit(MarkFileModified(Store, file_path, content, modified),
                     "mark_file_modified")
    /\ ApiCounted

ApiUndo ==
    /\ \E ok \in BOOLEAN : ApiCommit(UndoLastOperation(Store, ok), "undo")
    /\ ApiCounted

ApiRedo ==
    /\ \E ok \in BOOLEAN : ApiCommit(RedoLastOperation(Store, ok), "redo")
    /\ ApiCounted

InitApi ==
    /\ working_dir = "project"
    /\ EngineConstructed
    /\ disk = [path \in {ProjectFile} |-> <<"a">>]
    /\ is_connected = TRUE
    /\ CoordinatorConstructed
    /\ origin = [kind |-> "none"]
    /\ response_text = <<>>
    /\ recover_pc = "idle"
    /\ parsed_response = <<>>

NextApi ==
    \/ ApiCreateFile
    \/ ApiCreateFileWithContent
    \/ ApiOpenFile
    \/ ApiSaveFile
    \/ ApiDeleteFile
    \/ ApiRenameFile
    \/ ApiMoveFile
    \/ ApiCopyFile
    \/ ApiMarkFileModified
    \/ ApiUndo
    \/ ApiRedo

SpecApi == InitApi /\ [][NextApi]_vars

\* C22: in every state reached through create_file, create_file_with_content,
\* open_file, save_file, rename_file, move_file and mark_file_modified, each
\* tracked entry has modified = (hash of its stored editor content differs
\* from its last_known_disk_content_hash).
C22_ModifiedIsDerived ==
    \A path \in DOMAIN open_files :
        open_files[path].last_known_disk_content_hash # NoHash =>
            open_files[path].modified =
                (ContentHash(open_files[path].content, open_files[path].encoding)
                     # open_files[path].last_known_disk_content_hash)

(***************************************************************************)
(* The watched workspace: two tracked files, other programs that write and *)
(* remove them, the watcher notifications and the auto-save timer.         *)
(***************************************************************************)
WatchedPaths == {ProjectFile, SecondFile}

\* a notification whose change was made by another program (ghost mark)
ExternalNotice(s, file_path, kind) ==
    [s EXCEPT !.queue = Append(@, [path |-> file_path, kind |-> kind, external |-> TRUE])]
IsExternal(notification) == "external" \in DOMAIN notification

\* the engine has written, created or removed `path` (every such call logs a record)
EngineWrote(path) == \E i \in 1..Len(history) : history[i].source = path

\* another program writes a watched file; the watcher thread notices
ExternalModify ==
    /\ external_writes < MaxExternalWrites
    /\ \E file_path \in DOMAIN disk, content \in ExternalTexts :
           Commit(ExternalNotice([Store EXCEPT !.disk = Put(@, file_path, content)],
                                 file_path, "modified"))
    /\ external_writes' = external_writes + 1
    /\ UNCHANGED <<mutating_calls, last_call_age, last_delivery>>
    /\ EngineFrame

\* another program removes a watched file; the watcher thread notices
ExternalRemove ==
    /\ external_writes < MaxExternalWrites
    /\ \E file_path \in DOMAIN disk :
           Commit(ExternalNotice([Store EXCEPT !.disk = Drop(@, file_path)],
                                 file_path, "removed"))
    /\ external_writes' = external_writes + 1
    /\ UNCHANGED <<mutating_calls, last_call_age, last_delivery>>
    /\ EngineFrame

\* open(file_path, 'w', encoding=encoding) and f.write(content): the file is
\* truncated when it is opened, and write raises for a character the encoding lacks
CanEncode(content, encoding) == Encode(content, encoding) = content

\* save_file(file_path, content, encoding) with an explicit encoding
SaveFileEncoded(s, file_path, content, encoding, ok) ==
    IF ~ok THEN ScheduleReset([s EXCEPT !.ignore = TRUE])
    ELSE IF ~CanEncode(content, encoding)
    THEN ScheduleReset(Notice([s EXCEPT !.ignore = TRUE,
                                        !.disk = Put(@, file_path, <<>>)],
                              file_path, "modified"))
    ELSE LET entry == IF file_path \in DOMAIN s.open_files
                      THEN [s.open_files[file_path] EXCEPT
                               !.content = content, !.modified = FALSE,
                               !.encoding = encoding, !.externally_modified = FALSE,
                               !.last_known_disk_content_hash =
                                   ContentHash(content, encoding)]
                      ELSE NewEntry(content, encoding)
             written == [s EXCEPT !.ignore = TRUE,
                                  !.disk = Put(@, file_path, content),
                                  !.open_files = Put(@, file_path, entry)]
             logged == AddOperation(written,
                                    FileOperation("save", file_path, NoPath, content))
         IN  ScheduleReset(OnFileSaved(Notice(logged, file_path, "modified"), file_path))

\* mutation of AutoSaves: the timer saves every modified file
AutoSaves_unguarded(s, file_path) == s.open_files[file_path].modified

\* the condition of _auto_save_all on an entry
AutoSaves(s, file_path) ==
    /\ s.open_files[file_path].modified
    /\ ~s.open_files[file_path].externally_modified

\* the loop of _auto_save_all over open_files.items(), in the order `order`;
\* ok[file_path]: the write of that file succeeds
RECURSIVE AutoSaveLoop(_, _, _)
AutoSaveLoop(s, order, ok) ==
    IF order = <<>> THEN s
    ELSE AutoSaveLoop(
             IF AutoSaves(s, Head(order))
             THEN SaveFileEncoded(s, Head(order), s.open_files[Head(order)].content,
                                  s.open_files[Head(order)].encoding, ok[Head(order)])
             ELSE s,
             Tail(order), ok)

\* the orders a dict of these keys can have (its insertion order)
DictOrders(keys) ==
    { order \in [1..Cardinality(keys) -> keys] :
          \A i, j \in 1..Cardinality(keys) : i # j => order[i] # order[j] }

\* the entries the timer saves in the state s
AutoSaved(s) == { path \in DOMAIN s.open_files : AutoSaves(s, path) }

\* the record of a run of the timer: the files it saved, and the modified
\* files it left alone
AutoSaveRan(s) ==
    [ call |-> "auto_save_all", value |-> "None", saved |-> AutoSaved(s),
      skipped |-> { path \in DOMAIN s.open_files :
                       s.open_files[path].modified /\ path \notin AutoSaved(s) } ]

\* calls of the user and of the timer in the watched workspace
MaxWatchCalls == 4

\* a call returns; made: it was a mutating call of the engine
WatchCounted(made) ==
    /\ mutating_calls < MaxWatchCalls
    /\ mutating_calls' = mutating_calls + 1
    /\ last_call_age' = IF made THEN 0 ELSE last_call_age
    /\ UNCHANGED <<external_writes, last_delivery>>
    /\ EngineFrame

\* EnhancedMainWindow.open_file -> UnifiedFileManager.open_file -> on_file_opened
WatchOpenFile ==
    /\ \E file_path \in DOMAIN disk :
         \E encoding \in DetectedEncodings(disk[file_path]) :
             Commit(OpenFile(Store, file_path, encoding))
    /\ WatchCounted(FALSE)

\* the user types: textChanged -> on_editor_changed -> mark_file_modified
WatchEditorChanged ==
    /\ current_tab # NoPath
    /\ \E content \in EditorTexts \ {open_tabs[current_tab]} :
           LET typed == [Store EXCEPT !.open_tabs = Put(@, current_tab, content)]
           IN  Commit(IF current_file = current_tab
                      THEN MarkFileModified(typed, current_tab, content, "none")
                      ELSE typed)
    /\ WatchCounted(FALSE)

\* EnhancedMainWindow.save_file -> UnifiedFileManager.save_file -> on_file_saved
WatchSaveFile ==
    /\ current_tab # NoPath /\ current_file # NoPath
    /\ \E ok \in BOOLEAN :
           Commit(SaveFile(Store, current_file, open_tabs[current_tab], ok))
    /\ WatchCounted(TRUE)

\* the auto-save timer fires: _auto_save_all
AutoSaveAll ==
    /\ DOMAIN open_files # {}
    /\ \E order \in DictOrders(DOMAIN open_files) :
         \E ok \in [DOMAIN open_files -> BOOLEAN] :
           /\ \A path \in DOMAIN open_files : path \in AutoSaved(Store) \/ ok[path]
           /\ Commit([AutoSaveLoop(Store, order, ok) EXCEPT !.ret = AutoSaveRan(Store)])
    /\ WatchCounted(AutoSaved(Store) # {})

InitWatch ==
    /\ working_dir = "project"
    /\ EngineConstructed
    /\ disk = [path \in WatchedPaths |-> <<"a">>]
    /\ is_connected = TRUE
    /\ CoordinatorConstructed
    /\ origin = [kind |-> "none"]
    /\ response_text = <<>>
    /\ recover_pc = "idle"
    /\ parsed_response = <<>>

NextWatch ==
    \/ WatchOpenFile
    \/ WatchEditorChanged
    \/ WatchSaveFile
    \/ ExternalModify
    \/ ExternalRemove
    \/ WatcherDeliver
    \/ ResetIgnoreWatcherFlag
    \/ AutoSaveAll
    \/ Tick

SpecWatch == InitWatch /\ [][NextWatch]_vars

\* C23: a 'modified' notification for a tracked path that no engine write to
\* that path caused sets externally_modified on the entry of that path when it
\* is handled, also while or just after the engine writes another path; a
\* 'removed' notification sets externally_deleted and keeps the entry.  The
\* formula states it for the case the claim names: the engine has written
\* another path and never this one.
C23_Handled(notification) ==
    /\ notification.path \in DOMAIN open_files'
    /\ IF notification.kind = "removed"
       THEN open_files'[notification.path].externally_deleted
       ELSE open_files'[notification.path].externally_modified

C23_ExternalChangeFlagged ==
    [][(/\ watch_queue # <<>>
        /\ watch_queue' = Tail(watch_queue)
        /\ IsExternal(Head(watch_queue))
        /\ Head(watch_queue).path \in DOMAIN open_files
        /\ ~EngineWrote(Head(watch_queue).path)
        /\ \E other \in WatchedPaths \ {Head(watch_queue).path} : EngineWrote(other))
           => C23_Handled(Head(watch_queue))]_vars

\* C24: while externally_modified is set for a tracked file, the auto-save
\* timer does not write that file and leaves its entry as it is; the flag is
\* cleared, and the engine replaces the disk content, only in an explicit
\* save or a reload (open_file) requested by the caller.
C24_Flagged(path) == path \in DOMAIN open_files /\ open_files[path].externally_modified

C25_AppendOnlyLog ==
    [][/\ Len(history') >= Len(history)
       /\ SubSeq(history', 1, Len(history)) = history]_vars

\* C29: when undo_last_operation or redo_last_operation returns False,
\* current_index and the list of records are the same as before the call (so
\* can_undo and can_redo answer the same); and a redo_last_operation that
\* returns True does not change the number of records.
C29_FailedUndoRedoKeepsHistory ==
    [][/\ (ApiUndo \/ ApiRedo) /\ last_return'.value = "False"
             => /\ history' = history
                /\ current_index' = current_index
                /\ CanUndo([Store EXCEPT !.history = history', !.index = current_index'])
                      = CanUndo(Store)
                /\ CanRedo([Store EXCEPT !.history = history', !.index = current_index'])
                      = CanRedo(Store)
       /\ ApiRedo /\ last_return'.value = "True" => Len(history') = Len(history)]_vars

\* the second half of C29 alone: a redo that succeeds keeps the number of records
C29_RedoKeepsCount ==
    [][ApiRedo /\ last_return'.value = "True" => Len(history') = Len(history)]_vars

(***************************************************************************)
(* FileHistoryManager on its own: add_operation, undo, redo, clear_history *)
(* called in any order.  The class is defined twice, with the same text,   *)
(* in unified_file_manager.py and in enhanced_file_manager.py.             *)
(***************************************************************************)
HistoryOperations ==
    { FileOperation("create", ProjectFile, NoPath, <<"a">>),
      FileOperation("save", ProjectFile, NoPath, <<"b">>),
      FileOperation("delete", SecondFile, NoPath, <<>>) }

\* the record of a call: what it returned, the cursor before it and the call before it
HistoryCall(s, call, value) ==
    [s EXCEPT !.ret = [ call |-> call, value |-> value, index_before |-> current_index,
                        previous |-> last_return.call ]]

HistoryFrame ==
    /\ UNCHANGED <<mutating_calls, external_writes, last_call_age, last_delivery>>
    /\ EngineFrame

HmAddOperation ==
    /\ \E operation \in HistoryOperations :
           Commit(HistoryCall(AddOperation(Store, operation), "add_operation", NoOperation))
    /\ HistoryFrame

HmUndo ==
    /\ Commit(HistoryCall(HistoryUndo(Store), "undo", UndoReturns(Store)))
    /\ HistoryFrame

HmRedo ==
    /\ Commit(HistoryCall(HistoryRedo(Store), "redo", RedoReturns(Store)))
    /\ HistoryFrame

HmClearHistory ==
    /\ Commit(HistoryCall(ClearHistory(Store), "clear_history", NoOperation))
    /\ HistoryFrame

InitHistory ==
    /\ working_dir = "project"
    /\ EngineConstructed
    /\ disk = <<>>
    /\ is_connected = TRUE
    /\ CoordinatorConstructed
    /\ origin = [kind |-> "none"]
    /\ response_text = <<>>
    /\ recover_pc = "idle"
    /\ parsed_response = <<>>

NextHistory ==
    \/ HmAddOperation
    \/ HmUndo
    \/ HmRedo
    \/ HmClearHistory

SpecHistory == InitHistory /\ [][NextHistory]_vars

\* a redo called right after an undo returns the operation the undo returned
\* and puts current_index back where it was before the undo
C27_RoundTrip ==
    /\ last_return'.value = last_return.value
    /\ current_index' = last_return.index_before

\* C27: after any calls of add_operation, undo, redo and clear_history,
\* -1 <= current_index <= len(history) - 1 and len(history) <= max_history;
\* undo returns None and changes nothing at current_index = -1, redo returns
\* None and changes nothing at current_index = len(history) - 1; and an undo
\* that returned an operation, immediately followed by a redo, returns the
\* same operation and restores current_index.
C27_HistoryCursor ==
    /\ [](/\ -1 <= current_index /\ current_index <= Len(history) - 1
          /\ Len(history) <= max_history)
    /\ [][/\ HmUndo /\ current_index = -1
                => /\ last_return'.value = NoOperation
                   /\ history' = history /\ current_index' = current_index
          /\ HmRedo /\ current_index = Len(history) - 1
                => /\ last_return'.value = NoOperation
                   /\ history' = history /\ current_index' = current_index
          /\ HmRedo /\ last_return.call = "undo" /\ last_return.value # NoOperation
                => C27_RoundTrip]_vars

\* a redo right after an undo that returned an operation, on a full list
C27_Witness ==
    /\ last_return.call = "redo"
    /\ last_return.previous = "undo"
    /\ last_return.value # NoOperation
    /\ last_return.index_before = current_index - 1
    /\ Len(history) = max_history

\* C27 as stated, for every undo: an undo immediately followed by a redo
\* returns the same operation and restores current_index.
C27_AnyUndoThenRedo ==
    [][HmRedo /\ last_return.call = "undo" => C27_RoundTrip]_vars

\* C26: when the user answers No to the apply prompt of an add_code,
\* replace_code, optimize_code or add_comment response, the content of the
\* bound file on disk and its open_files entry are the same as before the
\* response arrived.
C26_RejectedUpdateLeavesFile ==
    [][(/\ ~inplace_log.ran /\ inplace_log'.ran
        /\ inplace_log'.answer = "No"
        /\ ~inplace_log'.error
        /\ inplace_log'.bound # NoPath)
           => /\ disk' = disk
              /\ inplace_log'.bound \in DOMAIN open_files'
                    <=> inplace_log'.bound \in DOMAIN open_files
              /\ inplace_log'.bound \in DOMAIN open_files
                    => open_files'[inplace_log'.bound] = open_files[inplace_log'.bound]]_vars

\* C28: when _worker_finished handles the finished signal of a worker other
\* than the current one (a new worker was started since), it neither waits on
\* the current worker nor clears the current-worker slot: the slot still
\* refers to the new worker, and is_busy() stays true while that worker runs.
C28_StaleFinished ==
    /\ main_pc = "idle"
    /\ event_queue # <<>>
    /\ event_queue' = Tail(event_queue)
    /\ Head(event_queue).kind = "finished"
    /\ current_worker \notin {0, Head(event_queue).worker}

C28_StaleFinishedIgnored ==
    [][C28_StaleFinished
          => /\ current_worker' = current_worker
             /\ main_pc' = "idle"
             /\ IsRunning(current_worker)
                   => current_worker' # 0 /\ IsRunning(current_worker')]_vars

(***************************************************************************)
(* FileWatcherThread: the initial scan and the periodic poll of one        *)
(* watched directory, and the other programs that change the tree.         *)
(***************************************************************************)
\* the watched directory and what it can hold
WatchRoot == [dir |-> "project", name |-> <<>>]
TreeFiles == {ProjectFile, SecondFile}
TreePaths == {WatchRoot} \cup TreeFiles

\* modification times are counted up to this
MaxMtime == 4

\* os.stat(path) and os.path.isdir(path)
Stat(tree, path) == [mtime |-> tree[path].mtime]
IsDir(tree, path) == tree[path].is_dir

\* the time of the next change: later than every time in the tree
RECURSIVE LatestMtime(_, _)
LatestMtime(tree, paths) ==
    IF paths = {} THEN 0
    ELSE LET path == CHOOSE p \in paths : TRUE
             rest == LatestMtime(tree, paths \ {path})
         IN  IF tree[path].mtime > rest THEN tree[path].mtime ELSE rest
Now(tree) == LatestMtime(tree, DOMAIN tree) + 1

TreeFrame ==
    UNCHANGED <<file_states, watcher_pc, poll_events, recovererVars, coordinatorVars,
                engineVars, dispatchVars>>

\* another program creates the watched directory, or a file in it (which
\* changes the modification time of the directory)
TreeCreate ==
    /\ Now(watch_tree) <= MaxMtime
    /\ \E path \in TreePaths \ DOMAIN watch_tree :
         /\ path = WatchRoot \/ WatchRoot \in DOMAIN watch_tree
         /\ watch_tree' =
               IF path = WatchRoot
               THEN Put(watch_tree, path, [mtime |-> Now(watch_tree), is_dir |-> TRUE])
               ELSE Put(Put(watch_tree, path,
                            [mtime |-> Now(watch_tree), is_dir |-> FALSE]),
                        WatchRoot, [mtime |-> Now(watch_tree), is_dir |-> TRUE])
         /\ changed_since' = Append(changed_since, path)
    /\ TreeFrame

\* another program writes a file of the tree
TreeModify ==
    /\ Now(watch_tree) <= MaxMtime
    /\ \E path \in TreeFiles \cap DOMAIN watch_tree :
         /\ watch_tree' = Put(watch_tree, path,
                              [mtime |-> Now(watch_tree), is_dir |-> FALSE])
         /\ changed_since' = Append(changed_since, path)
    /\ TreeFrame

\* another program removes a file of the tree
TreeRemove ==
    /\ Now(watch_tree) <= MaxMtime
    /\ \E path \in TreeFiles \cap DOMAIN watch_tree :
         /\ watch_tree' = Put(Drop(watch_tree, path), WatchRoot,
                              [mtime |-> Now(watch_tree), is_dir |-> TRUE])
         /\ changed_since' = Append(changed_since, path)
    /\ TreeFrame

\* os.walk(watch_path): the directory itself (root) and its files
WalkedDirs(tree) == { path \in DOMAIN tree : IsDir(tree, path) }
WalkedFiles(tree) ==
    IF WatchRoot \in DOMAIN tree THEN { path \in DOMAIN tree : ~IsDir(tree, path) } ELSE {}

\* scan_initial_state: _scan_file stores the state of every file that os.walk
\* yields; the directories are not stored
ScanPathInitialState(tree) == [path \in WalkedFiles(tree) |-> Stat(tree, path)]

\* the result of handling one path: its stored state (Absent for none) and
\* the signals emitted for it
Absent == [mtime |-> -1]
Stored(states, path) == IF path \in DOMAIN states THEN states[path] ELSE Absent
Handled(state, events) == [state |-> state, events |-> events]

\* _check_file_changes_and_emit(path) on a path that exists
CheckFileChangesAndEmit(before, tree, path) ==
    IF before.state = Absent
    THEN Handled(Stat(tree, path), Append(before.events, "added"))
    ELSE IF Stat(tree, path).mtime # before.state.mtime
    THEN Handled(Stat(tree, path),
                 Append(before.events,
                        IF IsDir(tree, path) THEN "directory_changed" ELSE "modified"))
    ELSE before

\* the first loop of check_changes: every file found by os.walk is checked
CheckWalked(before, tree, path) ==
    IF path \in WalkedFiles(tree) THEN CheckFileChangesAndEmit(before, tree, path)
    ELSE before

\* the second loop: stored paths that were not found are reported as removed
CheckRemoved(before, tree, path) ==
    IF before.state # Absent /\ path \notin WalkedFiles(tree) \cup WalkedDirs(tree)
    THEN Handled(Absent, Append(before.events, "removed"))
    ELSE before

\* the third loop: every path found, directories too, is added when it is
\* not stored and checked for a modification otherwise
CheckAddedOrModified(before, tree, path) ==
    IF path \notin WalkedFiles(tree) \cup WalkedDirs(tree) THEN before
    ELSE CheckFileChangesAndEmit(before, tree, path)

\* check_changes, for one path: the three loops in their order
CheckChangesOf(states, tree, path) ==
    CheckAddedOrModified(
        CheckRemoved(CheckWalked(Handled(Stored(states, path), <<>>), tree, path),
                     tree, path),
        tree, path)

WatcherFrame ==
    UNCHANGED <<watch_tree, recovererVars, coordinatorVars, engineVars, dispatchVars>>

\* FileWatcherThread.run: scan_initial_state
ScanInitialState ==
    /\ watcher_pc = "constructed"
    /\ file_states' = ScanPathInitialState(watch_tree)
    /\ watcher_pc' = "watching"
    /\ changed_since' = <<>>
    /\ UNCHANGED poll_events
    /\ WatcherFrame

\* FileWatcherThread.run: one check_changes of the loop
CheckChanges ==
    /\ watcher_pc = "watching"
    /\ file_states' =
          [path \in { p \in TreePaths :
                        CheckChangesOf(file_states, watch_tree, p).state # Absent }
              |-> CheckChangesOf(file_states, watch_tree, path).state]
    /\ poll_events' =
          [path \in TreePaths |-> CheckChangesOf(file_states, watch_tree, path).events]
    /\ changed_since' = <<>>
    /\ UNCHANGED watcher_pc
    /\ WatcherFrame

InitWatcher ==
    /\ working_dir = "project"
    /\ EngineConstructed
    /\ disk = <<>>
    /\ is_connected = TRUE
    /\ CoordinatorConstructed
    /\ origin = [kind |-> "none"]
    /\ response_text = <<>>
    /\ recover_pc = "idle"
    /\ parsed_response = <<>>

NextWatcher ==
    \/ TreeCreate
    \/ TreeModify
    \/ TreeRemove
    \/ ScanInitialState
    \/ CheckChanges

SpecWatcher == InitWatcher /\ [][NextWatcher]_vars

\* C30: a check_changes before which nothing in the watched tree changed since
\* scan_initial_state, or since the check_changes before it, emits no added,
\* modified, removed or directory_changed signal; and after one change of one
\* file it emits at most one signal for the path of that file.
C30_WatcherQuiescence ==
    [][CheckChanges =>
          /\ changed_since = <<>> => \A path \in TreePaths : poll_events'[path] = <<>>
          /\ Len(changed_since) = 1 => Len(poll_events'[changed_since[1]]) <= 1]_vars

\* the second half of C30 alone: one change of one file, at most one signal
C30_OneEventPerChange ==
    [][CheckChanges /\ Len(changed_since) = 1
          => Len(poll_events'[changed_since[1]]) <= 1]_vars

\* the first half of C30 between two polls only
C30_QuietBetweenPolls ==
    [][CheckChanges /\ changed_since = <<>> /\ poll_events # <<>>
          => \A path \in TreePaths : poll_events'[path] = <<>>]_vars

====
